---------------------------- MODULE Spec2Model ----------------------------
(***************************************************************************)
(* The GMM demo of the lab website (src/unnamed/part_000): the EM fit of a *)
(* univariate Gaussian mixture, the model selection by BIC under the       *)
(* dominant-weight constraint, and the cumulative (prefix by prefix) fit   *)
(* behind the confidence band of the time-series plot.                     *)
(*                                                                         *)
(* NUMBERS.  A JavaScript number is modelled as an integer: a finite value *)
(* x is the integer floor(x * Scale), Scale = 2^FracBits, and the special  *)
(* values NaN, Infinity, -Infinity (and undefined, null, which the plot    *)
(* arrays hold) are integers outside the finite range (-Huge, Huge).       *)
(* Arithmetic follows IEEE 754 on the special values (0/0 = NaN,           *)
(* x/0 = Infinity, Infinity * 0 = NaN, any comparison with NaN is false)   *)
(* and rounds finite results down to the resolution 1/Scale.  Arrays are   *)
(* sequences, so index i of the source is index i+1 here.                  *)
(*                                                                         *)
(* The probabilities and responsibilities of the EM loop range far below   *)
(* 1/Scale, and the code tells them from its epsilon 1e-10: they are       *)
(* modelled as floating numbers of a mantissa and a binary exponent (Fl).  *)
(***************************************************************************)
EXTENDS Integers, Sequences, FiniteSets

\* Fractional bits of the fixed-point numbers.
FracBits == 14

Scale == 2^FracBits

\* Finite values lie strictly between -Huge and Huge; what exceeds the range
\* becomes an infinity, as a double's overflow does.
Huge == 2^28

PosInf == Huge

NegInf == -Huge

NaN == Huge + 1

Undefined == Huge + 2

Null == Huge + 3

\* The number literal num / den + more / (den * 10^4), rounded down: den is a
\* power of 10 up to 10^4 and `more` holds the next four decimals.  The
\* integer part is set apart so that no product leaves 31 bits.
Lit8(num, den, more) ==
    (num \div den) * Scale
    + ((num % den) * Scale + (more * Scale) \div 10000) \div den

\* The number literal with the decimal expansion num / den.
Lit(num, den) == Lit8(num, den, 0)

One == Scale

IsFinite(x) == -Huge < x /\ x < Huge

Sat(x) == IF x >= Huge THEN PosInf ELSE IF x <= -Huge THEN NegInf ELSE x

AbsInt(x) == IF x < 0 THEN -x ELSE x

SignOf(x) == IF x < 0 THEN -1 ELSE 1

\* a + b
Add(a, b) ==
    IF a = NaN \/ b = NaN THEN NaN
    ELSE IF a = PosInf THEN (IF b = NegInf THEN NaN ELSE PosInf)
    ELSE IF a = NegInf THEN (IF b = PosInf THEN NaN ELSE NegInf)
    ELSE IF b = PosInf \/ b = NegInf THEN b
    ELSE Sat(a + b)

\* -a
Neg(a) == IF a = NaN THEN NaN ELSE -a

\* a - b
Sub(a, b) == Add(a, Neg(b))

\* The product of two finite non-negative values, rounded down; the operands
\* are split at the binary point so that no partial product leaves 31 bits.
MulAbs(a, b) ==
    LET a1 == a \div Scale
        a0 == a % Scale
        b1 == b \div Scale
        b0 == b % Scale
    IN  IF a1 > 0 /\ b1 >= (Huge \div Scale) \div a1 THEN PosInf
        ELSE Sat(a1 * b1 * Scale + a1 * b0 + a0 * b1 + (a0 * b0) \div Scale)

\* a * b
Mul(a, b) ==
    IF a = NaN \/ b = NaN THEN NaN
    ELSE IF ~IsFinite(a) \/ ~IsFinite(b)
         THEN (IF a = 0 \/ b = 0 THEN NaN
               ELSE IF SignOf(a) * SignOf(b) > 0 THEN PosInf ELSE NegInf)
    ELSE LET p == MulAbs(AbsInt(a), AbsInt(b))
         IN  IF SignOf(a) * SignOf(b) > 0 THEN p ELSE Neg(p)

\* The first 15 bits of r / b after the binary point (0 <= r < b < Huge), by
\* long division three bits a step, and whether the division ends there.
FracDigits(r, b) ==
    LET r1 == (8 * r) % b
        r2 == (8 * r1) % b
        r3 == (8 * r2) % b
        r4 == (8 * r3) % b
    IN  [q |-> (((((8 * r) \div b) * 8 + (8 * r1) \div b) * 8
                 + (8 * r2) \div b) * 8 + (8 * r3) \div b) * 8
               + (8 * r4) \div b,
         exact |-> (8 * r4) % b = 0]

\* The FracBits bits of the digits d after the binary point; with borrow = 1
\* an exact quotient is lowered by one unit.
FracRound(d, borrow) ==
    IF d.exact /\ d.q % 2^(15 - FracBits) = 0
    THEN d.q \div 2^(15 - FracBits) - borrow
    ELSE d.q \div 2^(15 - FracBits)

FracDiv(r, b, borrow) == FracRound(FracDigits(r, b), borrow)

\* floor((a * Scale - borrow) / b) for finite a >= 0 and b > 0: with borrow = 0
\* the quotient a / b rounded down, with borrow = 1 the largest value strictly
\* below a / b.
DivAbsB(a, b, borrow) ==
    IF a \div b >= Huge \div Scale THEN PosInf
    ELSE IF b <= Huge \div Scale
         THEN Sat((a \div b) * Scale + ((a % b) * Scale - borrow) \div b)
    ELSE Sat((a \div b) * Scale + FracDiv(a % b, b, borrow))

DivAbs(a, b) == DivAbsB(a, b, 0)

\* a / b
Div(a, b) ==
    IF a = NaN \/ b = NaN THEN NaN
    ELSE IF ~IsFinite(a)
         THEN (IF ~IsFinite(b) THEN NaN
               ELSE IF SignOf(a) * SignOf(b) > 0 THEN PosInf ELSE NegInf)
    ELSE IF ~IsFinite(b) THEN 0
    ELSE IF b = 0
         THEN (IF a = 0 THEN NaN ELSE IF a > 0 THEN PosInf ELSE NegInf)
    ELSE LET q == DivAbs(AbsInt(a), AbsInt(b))
         IN  IF SignOf(a) * SignOf(b) > 0 THEN q ELSE Neg(q)

\* a < b, a >= b, a <= b: false when an operand is NaN
Lt(a, b) == a # NaN /\ b # NaN /\ a < b

Ge(a, b) == a # NaN /\ b # NaN /\ a >= b

Le(a, b) == a # NaN /\ b # NaN /\ a <= b

\* Math.abs
MathAbs(a) == IF a = NaN THEN NaN ELSE AbsInt(a)

\* The largest integer y in lo..hi with y * y <= n (lo * lo <= n).
RECURSIVE ISqrt(_, _, _)
ISqrt(n, lo, hi) ==
    IF lo >= hi THEN lo
    ELSE LET mid == (lo + hi + 1) \div 2
         IN  IF mid * mid <= n THEN ISqrt(n, mid, hi) ELSE ISqrt(n, lo, mid - 1)

\* The square root of a finite non-negative value, rounded down.
RECURSIVE SqrtAbs(_)
SqrtAbs(x) ==
    IF x <= Huge \div Scale THEN ISqrt(x * Scale, 0, 2^15)
    ELSE 2 * SqrtAbs(x \div 4)

\* Math.sqrt
Sqrt(x) ==
    IF x = NaN \/ x = NegInf THEN NaN
    ELSE IF x = PosInf THEN PosInf
    ELSE IF x < 0 THEN NaN
    ELSE SqrtAbs(x)

\* Math.LN2 = 0.69314718...
Ln2 == Lit8(6931, 10000, 4718)

\* e^(-r) for 0 <= r < ln 2: the Taylor polynomial of degree 9 in Horner
\* form, 1 - r (1 - r/2 (1 - r/3 ( ... (1 - r/9) ... ))).
ExpSeries(r) ==
    One - (r * (One - (r * (One - (r * (One - (r * (One - (r * (One - (r *
    (One - (r * (One - (r * (One - r \div 9)) \div (8 * Scale)))
    \div (7 * Scale))) \div (6 * Scale))) \div (5 * Scale)))
    \div (4 * Scale))) \div (3 * Scale))) \div (2 * Scale))) \div Scale

\* ln m for One <= m < 2 * One: 2 atanh z = 2 (z + z^3/3 + z^5/5 + ...),
\* z = (m - 1) / (m + 1) <= 1/3.
RECURSIVE AtanhSeries(_, _, _)
AtanhSeries(zpow, z2, i) ==
    IF i > 11 \/ zpow = 0 THEN 0
    ELSE zpow \div i + AtanhSeries((zpow * z2) \div Scale, z2, i + 2)

AtanhOf(z) == AtanhSeries(z, (z * z) \div Scale, 1)

LogMantissa(m) == 2 * AtanhOf(DivAbs(m - One, m + One))

\* The position of the leading bit of 1 <= y < 2^8, and of 1 <= y < Huge.
LeadingBitOfByte(y) == CHOOSE e \in 0..7 : y \div 2^e = 1

LeadingBit(y) ==
    IF y >= 2^24 THEN 24 + LeadingBitOfByte(y \div 2^24)
    ELSE IF y >= 2^16 THEN 16 + LeadingBitOfByte(y \div 2^16)
    ELSE IF y >= 2^8 THEN 8 + LeadingBitOfByte(y \div 2^8)
    ELSE LeadingBitOfByte(y)

\* The binary exponent e of a finite y > 0: y = m * 2^e, One <= m < 2 * One.
BinaryExponent(y) == LeadingBit(y) - FracBits

\* ln y for a finite y > 0 with the binary exponent e
LogAbs(y, e) ==
    e * Ln2 + LogMantissa(IF e >= 0 THEN y \div 2^e ELSE y * 2^(-e))

\* Math.log
Log(y) ==
    IF y = NaN \/ y = NegInf THEN NaN
    ELSE IF y = PosInf THEN PosInf
    ELSE IF y < 0 THEN NaN
    ELSE IF y = 0 THEN NegInf
    ELSE LogAbs(y, BinaryExponent(y))

\* Math.PI
MathPI == Lit8(31415, 10000, 9265)

\* Math.sqrt(2 * Math.PI)
Sqrt2Pi == Sqrt(Mul(2 * One, MathPI))

\* Math.pow(x, 2)
Pow2(x) == Mul(x, x)

(***************************************************************************)
(* JavaScript arrays and the array functions the demo uses.                *)
(***************************************************************************)
\* const x = value; followed by the code Body that uses x: the value is
\* computed first, once, and Body is applied to it.
Let(value, Body(_)) == CHOOSE result \in {Body(x) : x \in {value}} : TRUE

\* The array of the values F(1), ..., F(len), computed in this order
Tabulate(len, F(_)) == [j \in 1..len |-> F(j)] \o <<>>

\* a[idx], undefined outside the array
At(a, idx) == IF idx \in DOMAIN a THEN a[idx] ELSE Undefined

\* new Array(k).fill(v)
RECURSIVE Fill(_, _)
Fill(k, v) == IF k <= 0 THEN <<>> ELSE Append(Fill(k - 1, v), v)

\* a.slice(0, len)
RECURSIVE Slice(_, _)
Slice(a, len) ==
    IF len <= 0 THEN <<>>
    ELSE IF len > Len(a) THEN a
    ELSE Append(Slice(a, len - 1), a[len])

\* Math.max(...a): -Infinity of no arguments, NaN when an argument is NaN
RECURSIVE MathMax(_)
MathMax(a) ==
    IF a = <<>> THEN NegInf
    ELSE LET rest == MathMax(Tail(a))
         IN  IF Head(a) = NaN \/ rest = NaN THEN NaN
             ELSE IF Head(a) > rest THEN Head(a) ELSE rest

\* a.indexOf(v) by strict equality, which NaN never satisfies; the first
\* index from `from` on, and 0 (the source's -1) when there is none.
RECURSIVE IndexOfFrom(_, _, _)
IndexOfFrom(a, v, from) ==
    IF from > Len(a) THEN 0
    ELSE IF a[from] # NaN /\ v # NaN /\ a[from] = v THEN from
    ELSE IndexOfFrom(a, v, from + 1)

IndexOf(a, v) == IndexOfFrom(a, v, 1)

\* x inserted into the ascending sequence a, after the elements equal to it
RECURSIVE InsertSorted(_, _)
InsertSorted(a, x) ==
    IF a = <<>> THEN <<x>>
    ELSE IF x < Head(a) THEN <<x>> \o a
    ELSE <<Head(a)>> \o InsertSorted(Tail(a), x)

\* [...data].sort((u, v) => u - v): a sorted copy, data is left as it is
RECURSIVE SortAscending(_)
SortAscending(a) ==
    IF a = <<>> THEN <<>>
    ELSE InsertSorted(SortAscending(Slice(a, Len(a) - 1)), a[Len(a)])

(***************************************************************************)
(* Floating numbers (Fl): the value (m / Scale) * 2^e of a mantissa        *)
(* One <= m < 2 * One and a binary exponent e, or zero, or NaN.  They hold *)
(* the non-negative quantities of the E-step and the sums of the M-step.   *)
(***************************************************************************)
\* The binary exponent of the smallest positive double, 2^-1074.
MinExponent == -1074

FlZero == [m |-> 0, e |-> 0]

FlNaN == [m |-> NaN, e |-> 0]

\* (y / Scale) * 2^(e + s) with the mantissa y shifted by s binary places; what
\* lies below the smallest double is zero.
FlShift(y, e, s) ==
    IF e + s < MinExponent THEN FlZero
    ELSE [m |-> IF s >= 0 THEN y \div 2^s ELSE y * 2^(-s), e |-> e + s]

\* The floating number (y / Scale) * 2^e of a finite y >= 0, normalized.
FlNorm(y, e) == IF y = 0 THEN FlZero ELSE FlShift(y, e, BinaryExponent(y))

\* The same, with the cases One / 2 <= y < 4 * One, where the results of the
\* arithmetic on mantissas lie, told apart first.
FlRenorm(y, e) ==
    IF y >= 2 * One THEN FlShift(y, e, 1)
    ELSE IF y >= One THEN FlShift(y, e, 0)
    ELSE IF 2 * y >= One THEN FlShift(y, e, -1)
    ELSE FlNorm(y, e)

\* The floating number of the non-negative number x; NaN of what is none.
FlFrom(x) == IF ~IsFinite(x) \/ x < 0 THEN FlNaN ELSE FlNorm(x, 0)

\* The number of the floating number f, rounded down.
FlToNumber(f) ==
    IF f.m = NaN THEN NaN
    ELSE IF f.e >= 28 - FracBits THEN PosInf
    ELSE IF f.e >= 0 THEN Sat(f.m * 2^f.e)
    ELSE IF -f.e > FracBits + 1 THEN 0
    ELSE f.m \div 2^(-f.e)

\* a * b
FlMul(a, b) ==
    IF a.m = NaN \/ b.m = NaN THEN FlNaN
    ELSE IF a.m = 0 \/ b.m = 0 THEN FlZero
    ELSE FlRenorm(MulAbs(a.m, b.m), a.e + b.e)

\* big + small for exponents that differ by d = big.e - small.e >= 0: the
\* bits of `small` below the mantissa of `big` are lost.
FlAddAligned(big, small, d) ==
    IF d > FracBits + 1 THEN big
    ELSE FlRenorm(big.m + small.m \div 2^d, big.e)

\* a + b
FlAdd(a, b) ==
    IF a.m = NaN \/ b.m = NaN THEN FlNaN
    ELSE IF a.m = 0 THEN b
    ELSE IF b.m = 0 THEN a
    ELSE IF a.e >= b.e THEN FlAddAligned(a, b, a.e - b.e)
    ELSE FlAddAligned(b, a, b.e - a.e)

\* The entries 1..len of the array a of floating numbers, added to 0 in the
\* order of the index.
RECURSIVE FlSumUpTo(_, _)
FlSumUpTo(a, len) ==
    IF len = 0 THEN FlZero ELSE FlAdd(FlSumUpTo(a, len - 1), a[len])

FlSum(a) == FlSumUpTo(a, Len(a))

\* a / b for a > 0 and b > 0; with borrow = 1 the largest floating number
\* strictly below a / b.
FlQuot(a, b, borrow) == FlRenorm(DivAbsB(a.m, b.m, borrow), a.e - b.e)

\* a / b, as a number
FlDiv(a, b) ==
    IF a.m = NaN \/ b.m = NaN THEN NaN
    ELSE IF b.m = 0 THEN (IF a.m = 0 THEN NaN ELSE PosInf)
    ELSE IF a.m = 0 THEN 0
    ELSE FlToNumber(FlQuot(a, b, 0))

\* 1e-10 = 1.7179869184 * 2^-34
FlEps == [m |-> Lit8(17179, 10000, 8691), e |-> -34]

\* r / (s + 1e-10) for r <= s.  Where s + 1e-10 rounds to s the quotient is
\* still below r / s: it is then the largest floating number below r / s.
FlDivByPlusEps(r, s, sPlusEps) ==
    FlQuot(r, sPlusEps, IF sPlusEps = s THEN 1 ELSE 0)

FlDivPlusEps(r, s) ==
    IF r.m = NaN \/ s.m = NaN THEN FlNaN
    ELSE IF r.m = 0 THEN FlZero
    ELSE FlDivByPlusEps(r, s, FlAdd(s, FlEps))

\* q * Math.LN2 for an integer 0 <= q <= 1075, rounded down
LnTimes(q) ==
    Lit8(6931 * q + (4718 * q) \div 10000, 10000, (4718 * q) % 10000)

\* The integer q with q ln 2 <= t < (q + 1) ln 2, of which t \div Ln2 is one
\* too many at most.
ExpQuotient(t, q) == IF LnTimes(q) > t THEN q - 1 ELSE q

\* e^(-t) = 2^(-q) e^(-(t - q ln 2))
ExpOf(t, q) == FlRenorm(ExpSeries(t - LnTimes(q)), -q)

\* Math.exp(x) for x <= 0 (the arguments gaussianPDF passes); e^x is zero
\* where it lies below the smallest double.
FlExp(x) ==
    IF x = NaN THEN FlNaN
    ELSE IF x = NegInf \/ (-x) \div Ln2 > -MinExponent THEN FlZero
    ELSE ExpOf(-x, ExpQuotient(-x, (-x) \div Ln2))

\* Math.log(f) for a floating number f > 0, as a number
FlLog(f) ==
    IF f.e >= 0 THEN LnTimes(f.e) + LogMantissa(f.m)
    ELSE LogMantissa(f.m) - LnTimes(-f.e)

\* Math.log(sum + 1e-10)
LogPlusEps(sum) ==
    IF sum.m = NaN THEN NaN ELSE FlLog(FlAdd(sum, FlEps))

(***************************************************************************)
(* The Univariate GMM Engine.                                              *)
(***************************************************************************)
\* coefficient * Math.exp(exponent): an infinite coefficient (stdDev = 0)
\* comes with the exponent NaN or -Infinity, and Infinity * 0 is NaN.
PdfOf(coefficient, exponent) ==
    IF ~IsFinite(coefficient) \/ exponent = NaN THEN FlNaN
    ELSE FlMul(FlFrom(coefficient), FlExp(exponent))

gaussianPDF(x, mean, stdDev) ==
    PdfOf(Div(One, Mul(stdDev, Sqrt2Pi)),
          Div(Neg(Pow2(Sub(x, mean))), Mul(2 * One, Pow2(stdDev))))

\* The seeds of the loop of the k >= 3 branch, for the source's i = from-1..k-1
RECURSIVE SeedsFrom(_, _, _)
SeedsFrom(sortedData, k, from) ==
    IF from > k THEN <<>>
    ELSE <<At(sortedData, (from * Len(sortedData)) \div (k + 1) + 1)>>
         \o SeedsFrom(sortedData, k, from + 1)

\* A variant of the seeding below that reads the data as they come.
initializeMeansUnsorted(dat, k) ==
    LET sortedData == dat
        len == Len(sortedData)
    IN  IF k = 1 THEN <<At(sortedData, len \div 2 + 1)>>
        ELSE IF k = 2
             THEN <<At(sortedData, len \div 3 + 1),
                    At(sortedData, (2 * len) \div 3 + 1)>>
        ELSE SeedsFrom(sortedData, k, 1)

initializeMeans(dat, k) ==
    LET sortedData == SortAscending(dat)
        len == Len(sortedData)
    IN  IF k = 1 THEN <<At(sortedData, len \div 2 + 1)>>
        ELSE IF k = 2
             THEN <<At(sortedData, len \div 3 + 1),
                    At(sortedData, (2 * len) \div 3 + 1)>>
        ELSE SeedsFrom(sortedData, k, 1)

\* A variant of the array below with one entry too many.
InitVariancesPlus1(k) == Fill(k + 1, One)

\* new Array(k).fill(1.0)
InitVariances(k) == Fill(k, One)

\* new Array(k).fill(1.0 / k)
InitWeights(k) == Fill(k, Div(One, k * One))

\* a.reduce((sum, v) => sum + v, 0) over the first len entries: the entries
\* are added to 0 in the order of the index.
RECURSIVE SumUpTo(_, _)
SumUpTo(a, len) == IF len = 0 THEN 0 ELSE Add(SumUpTo(a, len - 1), a[len])

SumSeq(a) == SumUpTo(a, Len(a))

\* Math.sqrt(variances[j]) for each j: the square roots the E-step and the
\* log-likelihood pass to gaussianPDF do not depend on the sample, so they are
\* taken once for each component.
StdDevs(variances) ==
    Tabulate(Len(variances), LAMBDA j : Sqrt(variances[j]))

\* weights[j] * pdf(x; means[j], sqrt(variances[j])) for j = 1..len
Probs(x, len, means, stdDevs, weights) ==
    Tabulate(len, LAMBDA j :
        FlMul(FlFrom(At(weights, j)),
              gaussianPDF(x, At(means, j), At(stdDevs, j))))

\* The log-likelihood with the square roots taken: for each sample the sum
\* over j < means.length, then Math.log(sum + 1e-10), added in order
LogLikelihoodOf(dat, means, stdDevs, weights) ==
    SumSeq(Tabulate(Len(dat), LAMBDA i :
        LogPlusEps(FlSum(Probs(dat[i], Len(means), means, stdDevs, weights)))))

calculateLogLikelihood(dat, means, variances, weights) ==
    Let(StdDevs(variances),
        LAMBDA stdDevs : LogLikelihoodOf(dat, means, stdDevs, weights))

\* resp.map(r => r / (sum + 1e-10))
NormalizeRow(resp, sum) ==
    Tabulate(Len(resp), LAMBDA j : FlDivPlusEps(resp[j], sum))

\* E-step, one sample: resp, its sum, and the normalized row
Responsibility(x, k, means, stdDevs, weights) ==
    Let(Probs(x, k, means, stdDevs, weights),
        LAMBDA resp : NormalizeRow(resp, FlSum(resp)))

\* E-step: the responsibilities of the samples
EStep(dat, k, means, variances, weights) ==
    Let(StdDevs(variances),
        LAMBDA stdDevs :
    Tabulate(Len(dat), LAMBDA i :
        Responsibility(dat[i], k, means, stdDevs, weights)))

\* M-step sums over the samples for component j
SumResp(responsibilities, j) ==
    FlSum(Tabulate(Len(responsibilities), LAMBDA i : responsibilities[i][j]))

MeanSum(dat, responsibilities, j) ==
    FlSum(Tabulate(Len(dat), LAMBDA i :
        FlMul(responsibilities[i][j], FlFrom(dat[i]))))

\* responsibilities[i][j] * diff * diff is the product of the magnitudes
VarTerm(r, diff) == FlMul(FlMul(r, FlFrom(diff)), FlFrom(diff))

VarSum(dat, responsibilities, j, mean) ==
    FlSum(Tabulate(Len(dat), LAMBDA i :
        VarTerm(responsibilities[i][j], MathAbs(Sub(dat[i], mean)))))

\* A variant of the M-step below that gives a component without samples the
\* mean 0 and the variance 0.
MStepComponentGuarded(dat, responsibilities, j) ==
    Let(SumResp(responsibilities, j),
        LAMBDA nk :
    IF nk = FlZero THEN [weight |-> 0, mean |-> 0, variance |-> 0]
    ELSE
    Let(FlDiv(MeanSum(dat, responsibilities, j), nk),
        LAMBDA mean :
    [weight |-> FlDiv(nk, FlFrom(Len(dat) * One)),
     mean |-> mean,
     variance |-> FlDiv(VarSum(dat, responsibilities, j, mean), nk)]))

\* M-step for component j: weights[j], means[j], variances[j]
MStepComponent(dat, responsibilities, j) ==
    Let(SumResp(responsibilities, j),
        LAMBDA nk :
    Let(FlDiv(MeanSum(dat, responsibilities, j), nk),
        LAMBDA mean :
    [weight |-> FlDiv(nk, FlFrom(Len(dat) * One)),
     mean |-> mean,
     variance |-> FlDiv(VarSum(dat, responsibilities, j, mean), nk)]))

\* The assignments a[j] = vals[j] for j = 1..k, in place: the array keeps the
\* entries it has past k, and grows when it is shorter than k.
AssignEach(a, k, vals) ==
    Tabulate(IF Len(a) > k THEN Len(a) ELSE k,
             LAMBDA j : IF j <= k THEN vals[j] ELSE a[j])

\* M-step: the three arrays after the loop over j = 1..k
MStepAssign(k, params, updates) ==
    [weights |-> AssignEach(params.weights, k,
                            Tabulate(k, LAMBDA j : updates[j].weight)),
     means |-> AssignEach(params.means, k,
                          Tabulate(k, LAMBDA j : updates[j].mean)),
     variances |-> AssignEach(params.variances, k,
                              Tabulate(k, LAMBDA j : updates[j].variance))]

MStep(dat, k, responsibilities, params) ==
    MStepAssign(k, params,
                Tabulate(k, LAMBDA j :
                    MStepComponent(dat, responsibilities, j)))

maxIter == 100

\* tolerance = 0.001
tolerance == Lit(1, 1000)

\* The state of simpleGMM before the first iteration.
EMStart(dat, k) ==
    [means |-> initializeMeans(dat, k),
     variances |-> InitVariances(k),
     weights |-> InitWeights(k),
     prevLogLikelihood |-> NegInf,
     iter |-> 0,
     converged |-> FALSE]

\* Lines 225-229: the convergence check; break leaves prevLogLikelihood and
\* iter as they are.
ConvergenceCheck(st, params, logLikelihood, stop) ==
    [means |-> params.means,
     variances |-> params.variances,
     weights |-> params.weights,
     prevLogLikelihood |-> IF stop THEN st.prevLogLikelihood ELSE logLikelihood,
     iter |-> IF stop THEN st.iter ELSE st.iter + 1,
     converged |-> stop]

\* One pass of the loop body: E-step, M-step, convergence check.
EMIterate(dat, k, st) ==
    Let(EStep(dat, k, st.means, st.variances, st.weights),
        LAMBDA responsibilities :
    Let(MStep(dat, k, responsibilities,
              [weights |-> st.weights, means |-> st.means,
               variances |-> st.variances]),
        LAMBDA params :
    Let(calculateLogLikelihood(dat, params.means, params.variances,
                               params.weights),
        LAMBDA logLikelihood :
    ConvergenceCheck(st, params, logLikelihood,
        Lt(MathAbs(Sub(logLikelihood, st.prevLogLikelihood)), tolerance)))))

\* A variant of the test below that leaves the loop at maxIter only.
EMEndedAtCap(st) == st.iter >= maxIter

\* The loop has ended: by break, or by iter reaching maxIter.
EMEnded(st) == st.converged \/ st.iter >= maxIter

\* The loop run to its end.  The loop body is a function of the state, so a
\* pass that changes nothing but the counter (as every pass does once the
\* parameters are NaN) is repeated unchanged by all the passes left: the
\* counter is then set to maxIter at once.
RECURSIVE EMLoop(_, _, _)
EMLoopFrom(dat, k, st, next) ==
    IF next = [st EXCEPT !.iter = st.iter + 1]
    THEN [st EXCEPT !.iter = maxIter]
    ELSE EMLoop(dat, k, next)

EMLoop(dat, k, st) ==
    IF EMEnded(st) THEN st
    ELSE EMLoopFrom(dat, k, st, EMIterate(dat, k, st))

\* The object simpleGMM returns from the loop's final state.
EMResult(k, st) ==
    [nComponents |-> k, means |-> st.means,
     variances |-> st.variances, weights |-> st.weights]

simpleGMM(dat, k) == EMResult(k, EMLoop(dat, k, EMStart(dat, k)))

\* A variant of the criterion below that counts three parameters for every
\* component.
calculateBICThreePerComponent(dat, model) ==
    LET n == Len(dat)
        k == model.nComponents
        numParams == k + k + k
        logLikelihood == calculateLogLikelihood(dat, model.means,
                                                model.variances, model.weights)
    IN  Add(Mul(-2 * One, logLikelihood), Mul(numParams * One, Log(n * One)))

\* A variant of the criterion below that takes the penalty off.
calculateBICPenaltySubtracted(dat, model) ==
    LET n == Len(dat)
        k == model.nComponents
        numParams == k + k + (k - 1)
        logLikelihood == calculateLogLikelihood(dat, model.means,
                                                model.variances, model.weights)
    IN  Sub(Mul(-2 * One, logLikelihood), Mul(numParams * One, Log(n * One)))

calculateBIC(dat, model) ==
    LET n == Len(dat)
        k == model.nComponents
        numParams == k + k + (k - 1)
        logLikelihood == calculateLogLikelihood(dat, model.means,
                                                model.variances, model.weights)
    IN  Add(Mul(-2 * One, logLikelihood), Mul(numParams * One, Log(n * One)))

\* data.reduce((sum, v) => sum + Math.pow(v - mean, 2), 0)
SumSquares(a, mean) ==
    SumSeq(Tabulate(Len(a), LAMBDA i : Pow2(Sub(a[i], mean))))

\* let variance = NaN; if (n >= 3) variance = sumSquares / (n - 1)
SampleVariance(dat, mean) ==
    IF Len(dat) >= 3
    THEN Div(SumSquares(dat, mean), (Len(dat) - 1) * One)
    ELSE NaN

\* Small samples: the plain mean and the sample variance (NaN below 3 samples)
SimpleModel(dat, mean) ==
    [nComponents |-> 1, means |-> <<mean>>,
     variances |-> <<SampleVariance(dat, mean)>>,
     weights |-> <<One>>, isSimple |-> TRUE]

simpleMeanStd(dat) == SimpleModel(dat, Div(SumSeq(dat), Len(dat) * One))

(***************************************************************************)
(* The Model Selector (the body of the deferred callback of fitGMM).       *)
(***************************************************************************)
\* A variant of the constraint below that holds unless the largest weight is
\* below 0.5, as it is not when it is NaN.
PassesUnlessBelowHalf(weights) == ~Lt(MathMax(weights), Lit(5, 10))

\* The dominant component must hold at least 50% of the weight.
PassesWeightConstraint(weights) == Ge(MathMax(weights), Lit(5, 10))

\* models.push({...model, bic, passesWeightConstraint})
ScoredModel(dat, model) ==
    [nComponents |-> model.nComponents, means |-> model.means,
     variances |-> model.variances, weights |-> model.weights,
     bic |-> calculateBIC(dat, model),
     passesWeightConstraint |-> PassesWeightConstraint(model.weights)]

\* for (let k = 1; k <= 3; k++): the candidates in the order of k
FitCandidates(dat) ==
    Tabulate(3, LAMBDA k : ScoredModel(dat, simpleGMM(dat, k)))

\* models.filter(m => m.passesWeightConstraint)
RECURSIVE FilterValid(_)
FilterValid(models) ==
    IF models = <<>> THEN <<>>
    ELSE IF Head(models).passesWeightConstraint
         THEN <<Head(models)>> \o FilterValid(Tail(models))
    ELSE FilterValid(Tail(models))

\* A variant of the comparison below that also replaces on equal BIC.
PickLowerOrEqualBic(best, m) == IF Le(m.bic, best.bic) THEN m ELSE best

\* (best, m) => m.bic < best.bic ? m : best
PickLowerBic(best, m) == IF Lt(m.bic, best.bic) THEN m ELSE best

\* validModels.reduce(...) without an initial value: starts from the first
RECURSIVE ReduceBest(_, _)
ReduceBest(best, rest) ==
    IF rest = <<>> THEN best
    ELSE ReduceBest(PickLowerBic(best, Head(rest)), Tail(rest))

\* A variant of the selection below that falls back to the last candidate.
SelectBestOrLast(models) ==
    LET validModels == FilterValid(models)
    IN  IF Len(validModels) > 0
        THEN ReduceBest(Head(validModels), Tail(validModels))
        ELSE models[Len(models)]

SelectBest(models) ==
    LET validModels == FilterValid(models)
    IN  IF Len(validModels) > 0
        THEN ReduceBest(Head(validModels), Tail(validModels))
        ELSE models[1]

\* A variant of the test below with the threshold one lower.
IsSmallSampleBelow4(dat) == Len(dat) < 4

\* if (data.length < 5)
IsSmallSample(dat) == Len(dat) < 5

\* The candidates the callback fits: none for a small sample.
MainCandidates(dat) == IF IsSmallSample(dat) THEN <<>> ELSE FitCandidates(dat)

\* bestModel of the callback, given the candidates it fitted
BestModel(dat, models) ==
    IF IsSmallSample(dat) THEN simpleMeanStd(dat) ELSE SelectBest(models)

(***************************************************************************)
(* The Cumulative Fitter (the loop of plotTimeSeries).                     *)
(***************************************************************************)
\* models.push({...tempModel, bic, passesWeightConstraint})
ScoredTempModel(cumulativeData, tempModel) ==
    [nComponents |-> tempModel.nComponents, means |-> tempModel.means,
     variances |-> tempModel.variances, weights |-> tempModel.weights,
     bic |-> calculateBIC(cumulativeData, tempModel),
     passesWeightConstraint |-> Ge(MathMax(tempModel.weights), Lit(5, 10))]

\* for (let k = 1; k <= 3; k++) of the loop of plotTimeSeries
CumulativeCandidates(cumulativeData) ==
    Tabulate(3, LAMBDA k :
        ScoredTempModel(cumulativeData, simpleGMM(cumulativeData, k)))

RECURSIVE CumulativeReduce(_, _)
CumulativeReduce(best, rest) ==
    IF rest = <<>> THEN best
    ELSE CumulativeReduce(IF Lt(Head(rest).bic, best.bic) THEN Head(rest)
                          ELSE best, Tail(rest))

\* A variant of the selection below that skips the dominance filter.
CumulativeModelUnfiltered(models) ==
    CumulativeReduce(Head(models), Tail(models))

CumulativeModel(models) ==
    LET validModels == FilterValid(models)
    IN  IF Len(validModels) > 0
        THEN CumulativeReduce(Head(validModels), Tail(validModels))
        ELSE models[1]

\* A variant of the test below with the threshold one lower.
IsShortPrefixUpTo3(cumulativeData) == Len(cumulativeData) <= 3

\* The prefix is fitted by the plain formulas: cumulativeData.length <= 4
IsShortPrefix(cumulativeData) == Len(cumulativeData) <= 4

\* No model: the value of the places that hold a model before one is fitted.
NoModel == [nComponents |-> 0]

\* Lines 312-316: the plain mean and the sample variance of a short prefix
ShortPrefixStats(cumulativeData, mean) ==
    [mean |-> mean,
     variance |-> Div(SumSquares(cumulativeData, mean),
                      (Len(cumulativeData) - 1) * One),
     model |-> NoModel, fits |-> 0]

\* Lines 341-343: mean and variance of the dominant component of the model
DominantStats(cumulativeModel, dominantIdx) ==
    [mean |-> At(cumulativeModel.means, dominantIdx),
     variance |-> At(cumulativeModel.variances, dominantIdx),
     model |-> cumulativeModel, fits |-> 3]

CumulativeDominant(cumulativeModel) ==
    DominantStats(cumulativeModel,
                  IndexOf(cumulativeModel.weights,
                          MathMax(cumulativeModel.weights)))

\* mean and variance for the prefix cumulativeData (3 samples or more), with
\* the model they were read from (NoModel for a short prefix) and the number
\* of EM fits made
PrefixStats(cumulativeData) ==
    IF IsShortPrefix(cumulativeData)
    THEN ShortPrefixStats(cumulativeData,
                          Div(SumSeq(cumulativeData),
                              Len(cumulativeData) * One))
    ELSE CumulativeDominant(
             CumulativeModel(CumulativeCandidates(cumulativeData)))

\* cumulativeData = data.slice(0, i + 1), for the source's index i (i >= 2)
CumulativeStats(dat, i) == PrefixStats(Slice(dat, i + 1))

\* A variant of the test below that is false of undefined.
IsNaNValue(x) == x = NaN

\* isNaN(x) of JavaScript: true of NaN and of undefined
isNaN(x) == x = NaN \/ x = Undefined

\* Lines 346-355: the entries pushed for the mean and variance st
BandPoint(st, stdDev) ==
    [upper |-> Add(st.mean, Mul(Lit(196, 100), stdDev)),
     lower |-> Sub(st.mean, Mul(Lit(196, 100), stdDev)),
     mean |-> st.mean, statMean |-> st.mean,
     variance |-> st.variance, model |-> st.model, fits |-> st.fits]

PointOf(st) ==
    IF ~isNaN(st.variance)
    THEN BandPoint(st, Sqrt(st.variance))
    ELSE [upper |-> Null, lower |-> Null, mean |-> Null,
          statMean |-> st.mean, variance |-> st.variance,
          model |-> st.model, fits |-> st.fits]

\* A variant of the entries below that leaves out the first point only.
CumulativePointFrom1(dat, i) ==
    IF i < 1
    THEN [upper |-> Null, lower |-> Null, mean |-> Null, statMean |-> Null,
          variance |-> Null, model |-> NoModel, fits |-> 0]
    ELSE PointOf(CumulativeStats(dat, i))

\* The entries pushed on upperCI, lowerCI and meanLine for the source's index i
CumulativePoint(dat, i) ==
    IF i < 2
    THEN [upper |-> Null, lower |-> Null, mean |-> Null, statMean |-> Null,
          variance |-> Null, model |-> NoModel, fits |-> 0]
    ELSE PointOf(CumulativeStats(dat, i))

\* displayResults: the dominant component of the model
Dominant(model) ==
    LET dominantIdx == IndexOf(model.weights, MathMax(model.weights))
    IN  [mean |-> At(model.means, dominantIdx),
         variance |-> At(model.variances, dominantIdx),
         weight |-> At(model.weights, dominantIdx)]

(***************************************************************************)
(* The text of the input field.  A string is the sequence of its           *)
(* characters.  The texts of the model are made of digits, ".", "-", "+",  *)
(* ",", blanks and letters other than "e" and "I": no exponent, no         *)
(* "Infinity".                                                             *)
(***************************************************************************)
Digits == <<"0", "1", "2", "3", "4", "5", "6", "7", "8", "9">>

DigitOf(c) == (CHOOSE d \in 1..10 : Digits[d] = c) - 1

\* The number of digits of t from position `from` on
RECURSIVE DigitSpan(_, _)
DigitSpan(t, from) ==
    IF from > Len(t) \/ \A d \in 1..10 : Digits[d] # t[from] THEN 0
    ELSE 1 + DigitSpan(t, from + 1)

\* str.trim()
RECURSIVE Trim(_)
Trim(t) ==
    IF t = <<>> THEN t
    ELSE IF Head(t) = " " THEN Trim(Tail(t))
    ELSE IF t[Len(t)] = " " THEN Trim(SubSeq(t, 1, Len(t) - 1))
    ELSE t

\* str.split(','): the pieces between the commas, empty pieces included
RECURSIVE Split(_)
Split(t) ==
    IF \A p \in 1..Len(t) : t[p] # "," THEN <<t>>
    ELSE Let(CHOOSE p \in 1..Len(t) :
                 t[p] = "," /\ \A q \in 1..(p - 1) : t[q] # ",",
             LAMBDA p : <<SubSeq(t, 1, p - 1)>>
                            \o Split(SubSeq(t, p + 1, Len(t))))

\* The integer of the digits t[from..from+len-1], capped where the number
\* is an infinity of the model.
RECURSIVE DigitsValue(_, _, _)
DigitsValue(t, from, len) ==
    IF len = 0 THEN 0
    ELSE Let(DigitsValue(t, from, len - 1) * 10 + DigitOf(t[from + len - 1]),
             LAMBDA v : IF v >= Huge \div Scale THEN Huge \div Scale ELSE v)

\* The fraction 0.d1d2d3d4 of the digits at t[from..], rounded down; digits
\* past the fourth are below the resolution.
FractionValue(t, from, len) ==
    (((IF len >= 1 THEN DigitOf(t[from]) ELSE 0) * 1000
      + (IF len >= 2 THEN DigitOf(t[from + 1]) ELSE 0) * 100
      + (IF len >= 3 THEN DigitOf(t[from + 2]) ELSE 0) * 10
      + (IF len >= 4 THEN DigitOf(t[from + 3]) ELSE 0)) * Scale) \div 10000

\* The decimal literal that starts at `from` (after blanks and sign): digits
\* with an optional "." and digits, or "." and digits; NaN when there is no
\* digit.  What follows the literal is ignored.
ParseUnsigned(t, from) ==
    Let(DigitSpan(t, from),
        LAMBDA intLen :
    Let(from + intLen <= Len(t) /\ t[from + intLen] = ".",
        LAMBDA hasPoint :
    Let(IF hasPoint THEN DigitSpan(t, from + intLen + 1) ELSE 0,
        LAMBDA fracLen :
    IF intLen = 0 /\ fracLen = 0 THEN NaN
    ELSE Sat(DigitsValue(t, from, intLen) * Scale
             + FractionValue(t, from + intLen + 1, fracLen)))))

\* parseFloat(str): the blanks before the literal are skipped, what follows
\* it is ignored.
parseFloat(str) ==
    Let(Trim(str),
        LAMBDA t :
            IF t # <<>> /\ Head(t) = "-" THEN Neg(ParseUnsigned(t, 2))
            ELSE IF t # <<>> /\ Head(t) = "+" THEN ParseUnsigned(t, 2)
            ELSE ParseUnsigned(t, 1))

\* The decimal digits of the natural number n
RECURSIVE DigitsOfNat(_)
DigitsOfNat(n) ==
    IF n < 10 THEN <<Digits[n + 1]>>
    ELSE Append(DigitsOfNat(n \div 10), Digits[(n % 10) + 1])

\* v.toFixed(1) of a finite v: the sign, then the digits of the nearest
\* number of tenths of its absolute value.
toFixed1(v) ==
    Let((20 * AbsInt(v) + Scale) \div (2 * Scale),
        LAMBDA tenths :
            (IF v < 0 THEN <<"-">> ELSE <<>>)
            \o DigitsOfNat(tenths \div 10)
            \o <<".", Digits[(tenths % 10) + 1]>>)

\* strs.join(', ')
RECURSIVE Join(_)
Join(strs) ==
    IF Len(strs) = 0 THEN <<>>
    ELSE IF Len(strs) = 1 THEN strs[1]
    ELSE Join(SubSeq(strs, 1, Len(strs) - 1))
             \o <<",", " ">> \o strs[Len(strs)]

(***************************************************************************)
(* The datasets of the model: the rising series of WBC readings, which     *)
(* every prefix of such a series is too.                                   *)
(***************************************************************************)
\* The longest dataset.
MaxLen == 6

\* The largest component count the engine is called with.
MaxK == 4

\* The readings a dataset is made of (10^3 cells per microlitre).
Readings == {1, 2, 4, 5}

IsRising(s) == \A a \in DOMAIN s : \A b \in DOMAIN s : a < b => s[a] <= s[b]

Datasets ==
    UNION {{s \in [1..n -> {r * One : r \in Readings}] : IsRising(s)} :
           n \in 1..MaxLen}

\* The longest of the series that are not rising.
MaxShuffledLen == 3

\* The datasets the engine is applied to: the rising series, and the short
\* series in any order, which the seeding has to sort.
EngineDatasets ==
    Datasets
    \cup UNION {[1..n -> {r * One : r \in Readings}] : n \in 1..MaxShuffledLen}

\* The longest dataset the M-step is applied to on its own.
MaxAssignedLen == 3

\* The responsibilities of n samples, each assigned to a component or to
\* none: the rows the E-step makes of the probabilities of a sample of which
\* component c alone has one above zero (those of the others have
\* underflowed), or none has for c = 0.
AssignedResponsibilities(n, kk) ==
    {Tabulate(n, LAMBDA s :
         Let(Tabulate(kk, LAMBDA j : IF j = c[s] THEN FlFrom(Lit(25, 100))
                                     ELSE FlZero),
             LAMBDA resp : NormalizeRow(resp, FlSum(resp)))) :
         c \in [1..n -> 0..kk]}

\* No dominant component: the value of `dominant` before displayResults.
NoDominant == [mean |-> Null, variance |-> Null, weight |-> Null]

VARIABLES
    data,          \* the dataset the callback, or the engine, works on
    pc,            \* the position in the callback, or in the engine
    models,        \* fitGMM: the scored candidates, in the order of k
    fittedModel,   \* config.fittedModel
    emCalls,       \* the calls of simpleGMM made so far
    bicCalls,      \* the calls of calculateBIC made so far
    i,             \* plotTimeSeries: the loop index (entries pushed so far)
    upperCI,       \* plotTimeSeries: the three arrays of the band
    lowerCI,
    meanLine,
    cumStats,      \* plotTimeSeries: mean, variance, model and number of EM
                   \* fits behind each entry pushed
    dominant,      \* displayResults: the dominant component shown
    threw,         \* displayResults raised a TypeError (caught by fitGMM)
    k,             \* simpleGMM: the component count
    em,            \* simpleGMM: means, variances, weights, prevLogLikelihood,
                   \* iter of the loop
    returned,      \* the object the engine returned
    responsibilities, \* simpleGMM: the responsibilities an M-step starts from
    inputText,     \* the value of #data-input
    sampleData,    \* config.sampleData
    currentData,   \* config.currentData: null (the empty sequence) or an
                   \* array of one number or more
    disabled,      \* the property `disabled` of #fit-gmm
    label,         \* the text of #fit-gmm
    errorMessage,  \* the message .error-message shows ("" when hidden)
    timers,        \* the pending callbacks of setTimeout, oldest first: the
                   \* dataset each has captured
    clicks,        \* the clicks on #fit-gmm that passed the validation
    fitsDone,      \* the deferred callbacks that have run
    rbc,           \* the RBC demo (src/js/rbc-demo.js): selectedImage,
                   \* isFitted, what #selected-image, #selected-label,
                   \* #results-section and #fit-model-btn show, the pending
                   \* timers of fitModel; <<>> where the demo is left out
    trajectory     \* the trajectory demo (src/js/trajectory-demo.js): the two
                   \* input fields, config.wbcData, config.pltData, the
                   \* button, the pending timers of generateTrajectory, what
                   \* the plots were drawn from; <<>> where it is left out

vars == <<data, pc, models, fittedModel, emCalls, bicCalls, i, upperCI,
          lowerCI, meanLine, cumStats, dominant, threw, k, em, returned,
          responsibilities, inputText, sampleData, currentData, disabled,
          label, errorMessage, timers, clicks, fitsDone, rbc, trajectory>>

fitVars == <<models, fittedModel, emCalls, bicCalls, i, upperCI, lowerCI,
             meanLine, cumStats, dominant, threw>>

uiVars == <<inputText, sampleData, currentData, disabled, label,
            errorMessage, timers, clicks, fitsDone, rbc, trajectory>>

\* The pages are left out: no text, no pending callback.
NoPage ==
    /\ rbc = <<>>
    /\ trajectory = <<>>
    /\ inputText = <<>>
    /\ sampleData = <<>>
    /\ currentData = <<>>
    /\ disabled = FALSE
    /\ label = "Fit Model"
    /\ errorMessage = ""
    /\ timers = <<>>
    /\ clicks = 0
    /\ fitsDone = 0

NoEM == [means |-> <<>>, variances |-> <<>>, weights |-> <<>>,
         prevLogLikelihood |-> NegInf, iter |-> 0, converged |-> FALSE]

(***************************************************************************)
(* SpecFit: the deferred callback of fitGMM on a validated dataset, one    *)
(* step for the model selection, one for each pass of the loop of          *)
(* plotTimeSeries, one for displayResults.  Nothing else runs between the  *)
(* steps of a callback.                                                    *)
(***************************************************************************)
InitFit ==
    /\ data \in Datasets
    /\ pc = "fit"
    /\ models = <<>>
    /\ fittedModel = NoModel
    /\ emCalls = 0
    /\ bicCalls = 0
    /\ i = 0
    /\ upperCI = <<>>
    /\ lowerCI = <<>>
    /\ meanLine = <<>>
    /\ cumStats = <<>>
    /\ dominant = NoDominant
    /\ threw = FALSE
    /\ k = 0
    /\ em = NoEM
    /\ returned = NoModel
    /\ responsibilities = <<>>
    /\ NoPage

\* Lines 107-137: the candidates, bestModel, config.fittedModel = bestModel.
FitModel ==
    /\ pc = "fit"
    /\ models' = MainCandidates(data)
    /\ fittedModel' = BestModel(data, models')
    /\ emCalls' = emCalls + Len(models')
    /\ bicCalls' = bicCalls + Len(models')
    /\ pc' = "plotTimeSeries"
    /\ UNCHANGED <<data, i, upperCI, lowerCI, meanLine, cumStats, dominant,
                   threw, k, em, returned>>
    /\ UNCHANGED responsibilities
    /\ UNCHANGED uiVars

\* One pass of the loop of plotTimeSeries (lines 301-357).
PlotPoint ==
    /\ pc = "plotTimeSeries"
    /\ i < Len(data)
    /\ \E pt \in {CumulativePoint(data, i)} :
           /\ upperCI' = Append(upperCI, pt.upper)
           /\ lowerCI' = Append(lowerCI, pt.lower)
           /\ meanLine' = Append(meanLine, pt.mean)
           /\ cumStats' = Append(cumStats, [mean |-> pt.statMean,
                                            variance |-> pt.variance,
                                            model |-> pt.model,
                                            fits |-> pt.fits])
           /\ emCalls' = emCalls + pt.fits
           /\ bicCalls' = bicCalls + pt.fits
    /\ i' = i + 1
    /\ UNCHANGED <<data, pc, models, fittedModel, dominant, threw, k, em,
                   returned>>
    /\ UNCHANGED responsibilities
    /\ UNCHANGED uiVars

\* displayResults (lines 565-601), after the loop of plotTimeSeries has ended:
\* toFixed of an undefined mean raises a TypeError.
DisplayResults ==
    /\ pc = "plotTimeSeries"
    /\ i >= Len(data)
    /\ dominant' = Dominant(fittedModel)
    /\ threw' = (dominant'.mean = Undefined)
    /\ pc' = "done"
    /\ UNCHANGED <<data, models, fittedModel, emCalls, bicCalls, i, upperCI,
                   lowerCI, meanLine, cumStats, k, em, returned>>
    /\ UNCHANGED responsibilities
    /\ UNCHANGED uiVars

SpecFit == InitFit /\ [][FitModel \/ PlotPoint \/ DisplayResults]_vars

(***************************************************************************)
(* SpecEngine: the two fitting functions of the engine applied to a        *)
(* dataset, simpleGMM one pass of its loop a step, calculateBIC applied to *)
(* a model, and the M-step applied to the responsibilities of an E-step.   *)
(***************************************************************************)
InitEngine ==
    /\ data \in EngineDatasets
    /\ \/ /\ pc = "simpleGMM"
          /\ k \in 1..MaxK
          /\ em = EMStart(data, k)
          /\ returned = NoModel
          /\ responsibilities = <<>>
       \/ /\ pc = "simpleMeanStd"
          /\ k = 1
          /\ em = NoEM
          /\ returned = NoModel
          /\ responsibilities = <<>>
       \/ /\ pc = "calculateBIC"
          /\ k \in 1..MaxK
          /\ em = NoEM
          /\ returned = EMResult(k, EMStart(data, k))
          /\ responsibilities = <<>>
       \/ /\ pc = "M-step"
          /\ Len(data) <= MaxAssignedLen
          /\ k \in 1..MaxK
          /\ em = EMStart(data, k)
          /\ returned = NoModel
          /\ responsibilities \in AssignedResponsibilities(Len(data), k)
    /\ models = <<>>
    /\ fittedModel = NoModel
    /\ emCalls = 0
    /\ bicCalls = 0
    /\ i = 0
    /\ upperCI = <<>>
    /\ lowerCI = <<>>
    /\ meanLine = <<>>
    /\ cumStats = <<>>
    /\ dominant = NoDominant
    /\ threw = FALSE
    /\ NoPage

\* The M-step (lines 202-222) applied to the responsibilities of an E-step
\* whose samples have each a single component of a probability above zero,
\* or none.
MStepOnly ==
    /\ pc = "M-step"
    /\ \E params \in {MStep(data, k, responsibilities,
                             [weights |-> em.weights, means |-> em.means,
                              variances |-> em.variances])} :
           em' = [em EXCEPT !.weights = params.weights,
                            !.means = params.means,
                            !.variances = params.variances]
    /\ pc' = "M-step done"
    /\ UNCHANGED <<data, k, returned, responsibilities>>
    /\ UNCHANGED fitVars
    /\ UNCHANGED uiVars

\* One pass of the loop of simpleGMM (lines 187-230).
EMPass ==
    /\ pc = "simpleGMM"
    /\ ~EMEnded(em)
    /\ em' = EMIterate(data, k, em)
    /\ UNCHANGED <<data, pc, k, returned, responsibilities>>
    /\ UNCHANGED fitVars
    /\ UNCHANGED uiVars

\* The return of simpleGMM (lines 232-237).
EMReturn ==
    /\ pc = "simpleGMM"
    /\ EMEnded(em)
    /\ returned' = EMResult(k, em)
    /\ pc' = "returned"
    /\ UNCHANGED <<data, k, em, responsibilities>>
    /\ UNCHANGED fitVars
    /\ UNCHANGED uiVars

\* simpleMeanStd (lines 154-171).
MeanStdReturn ==
    /\ pc = "simpleMeanStd"
    /\ returned' = simpleMeanStd(data)
    /\ pc' = "returned"
    /\ UNCHANGED <<data, k, em, responsibilities>>
    /\ UNCHANGED fitVars
    /\ UNCHANGED uiVars

\* calculateBIC and the weight constraint (lines 117-127) applied to a model:
\* the model simpleGMM returned, or the model of the parameters simpleGMM
\* starts from, whose log-likelihood is finite for every dataset.
ScoreModel ==
    /\ \/ pc = "returned" /\ em # NoEM
       \/ pc = "calculateBIC"
    /\ models' = <<ScoredModel(data, returned)>>
    /\ bicCalls' = bicCalls + 1
    /\ pc' = "scored"
    /\ UNCHANGED <<data, k, em, returned, fittedModel, emCalls, i, upperCI,
                   lowerCI, meanLine, cumStats, dominant, threw>>
    /\ UNCHANGED responsibilities
    /\ UNCHANGED uiVars

SpecEngine ==
    InitEngine
    /\ [][EMPass \/ EMReturn \/ MeanStdReturn \/ ScoreModel \/ MStepOnly]_vars

(***************************************************************************)
(* The page: the input field, the two buttons and the timer.  An event     *)
(* handler runs to its end before the next event is taken, so each handler *)
(* and the deferred callback of fitGMM are one step.                       *)
(***************************************************************************)
\* The most clicks on the fit button that pass the validation.
MaxClicks == 2

\* The texts the user types: empty, two readings between blanks, readings
\* followed by letters, a zero, a hundred, an empty piece, a series of five
\* equal readings (its fit has no dominant component) and a series of five
\* readings out of order.
InputTexts ==
    {<<>>,
     <<" ", "5", ",", " ", "1", " ">>,
     <<"2", "x", ",", "4", ".", "5", "a">>,
     <<"0", ",", "5">>,
     <<"1", "0", "0">>,
     <<"5", ",", ",", "1">>,
     <<"5", ",", "5", ",", "5", ",", "5", ",", "5">>,
     <<"4", ",", "1", ",", "5", ",", "2", ",", "1">>}

\* generateGaussian(mean, stdDev, n): n draws; the model draws them from the
\* values near the mean that are listed.
NormalCount == 15

OutlierCount == 3

\* The draws of generateSampleData: one of readings around 6.0 and 14.0, one
\* whose first outlier is 3.5 standard deviations below its mean (-0.3 shown
\* as "-0.3"), one whose first outlier shows as "0.0".
SampleDraws ==
    {Tabulate(NormalCount, LAMBDA n : Lit(590 + 6 * (n % 5), 100))
         \o Tabulate(OutlierCount, LAMBDA n : Lit(1380 + 10 * n, 100)),
     Tabulate(NormalCount, LAMBDA n : Lit(590 + 6 * (n % 5), 100))
         \o <<-Lit(30, 100), Lit(1380, 100), Lit(1400, 100)>>,
     Tabulate(NormalCount, LAMBDA n : Lit(590 + 6 * (n % 5), 100))
         \o <<Lit(4, 100), Lit(1380, 100), Lit(1400, 100)>>}

\* this.config.sampleData.map(v => v.toFixed(1)).join(', ')
SampleText(sample) ==
    Join(Tabulate(Len(sample), LAMBDA n : toFixed1(sample[n])))

\* input.split(',').map(v => parseFloat(v.trim()))
ParseValues(input) ==
    Let(Split(input),
        LAMBDA pieces :
            Tabulate(Len(pieces), LAMBDA n : parseFloat(Trim(pieces[n]))))

\* A variant of the test below that accepts the bounds 0 and 100.
IsValidReadingOrBound(v) == ~isNaN(v) /\ v >= 0 /\ v <= 100 * One

\* v => !isNaN(v) && v > 0 && v < 100
IsValidReading(v) == ~isNaN(v) /\ v > 0 /\ v < 100 * One

\* validateInput on the text of the field: what it returns, and
\* config.currentData, the button's `disabled` and the message shown after it.
\* split, map and parseFloat raise nothing, so the catch block is never
\* entered.
validateInput(text, current, message) ==
    IF Trim(text) = <<>>
    THEN [returns |-> FALSE, currentData |-> current, disabled |-> TRUE,
          errorMessage |-> message]
    ELSE Let(ParseValues(Trim(text)),
             LAMBDA values :
                 IF (\A n \in 1..Len(values) : IsValidReading(values[n]))
                    /\ Len(values) >= 1
                 THEN [returns |-> TRUE, currentData |-> values,
                       disabled |-> FALSE, errorMessage |-> ""]
                 ELSE [returns |-> FALSE, currentData |-> current,
                       disabled |-> TRUE, errorMessage |->
                           "Please enter at least 1 valid WBC value (0-100)"])

\* The datasets the validation lets through, of the texts the user types and
\* of the text of each sample.
PageDatasets ==
    {ParseValues(Trim(text)) :
         text \in {t \in InputTexts
                         \cup {SampleText(sample) : sample \in SampleDraws} :
                       validateInput(t, <<>>, "").returns}}

\* The try block of the callback (lines 107-142) on each dataset of the
\* page: the candidates, bestModel, the points of the loop of plotTimeSeries
\* with the number of their EM fits, the dominant component of
\* displayResults and whether its toFixed raised.
CallbackOutcomes ==
    [dat \in PageDatasets |->
        Let(MainCandidates(dat),
            LAMBDA candidates :
        Let(BestModel(dat, candidates),
            LAMBDA bestModel :
        Let(Tabulate(Len(dat), LAMBDA n : CumulativePoint(dat, n - 1)),
            LAMBDA points :
        Let(Dominant(bestModel),
            LAMBDA shown :
                [models |-> candidates, fittedModel |-> bestModel,
                 points |-> points,
                 fits |-> SumSeq(Tabulate(Len(points),
                                          LAMBDA n : points[n].fits)),
                 dominant |-> shown,
                 threw |-> (shown.mean = Undefined)]))))]

\* A variant of the effect below in which the seeding sorts the array it is
\* given.
DataSortedInPlace(dat, len) ==
    SortAscending(SubSeq(dat, 1, len)) \o SubSeq(dat, len + 1, Len(dat))

\* What the fits of the first len elements leave in the array dat the
\* callback was given: simpleGMM writes to the arrays it allocates (lines
\* 178-180), the seeding sorts a copy ([...data], line 243) and
\* plotTimeSeries passes a slice (line 309), so nothing is written to dat.
DataAfterFit(dat, len) == dat

\* A variant of the block below that restores the button only when the try
\* block has raised nothing.
ButtonRestoredOnSuccess(button, threwError) ==
    IF threwError THEN button
    ELSE [label |-> "Fit Model", disabled |-> FALSE]

\* The finally block (lines 147-149), entered whether or not the try block
\* has raised.
ButtonAfterCallback(button, threwError) ==
    [label |-> "Fit Model", disabled |-> FALSE]

InitPage ==
    /\ sampleData \in SampleDraws
    /\ currentData = <<>>
    /\ inputText \in InputTexts
    /\ disabled \in BOOLEAN
    /\ label = "Fit Model"
    /\ errorMessage = ""
    /\ timers = <<>>
    /\ clicks = 0
    /\ fitsDone = 0
    /\ rbc = <<>>
    /\ trajectory = <<>>
    /\ pc = "page"
    /\ data = <<>>
    /\ models = <<>>
    /\ fittedModel = NoModel
    /\ emCalls = 0
    /\ bicCalls = 0
    /\ i = 0
    /\ upperCI = <<>>
    /\ lowerCI = <<>>
    /\ meanLine = <<>>
    /\ cumStats = <<>>
    /\ dominant = NoDominant
    /\ threw = FALSE
    /\ k = 0
    /\ em = NoEM
    /\ returned = NoModel
    /\ responsibilities = <<>>

\* The effects of validateInput on the page
Validate(text) ==
    \E v \in {validateInput(text, currentData, errorMessage)} :
        /\ currentData' = v.currentData
        /\ disabled' = v.disabled
        /\ errorMessage' = v.errorMessage

\* An input event of #data-input: the user has changed the text.
InputEdit ==
    /\ pc = "page"
    /\ \E text \in InputTexts :
           /\ inputText' = text
           /\ Validate(text)
    /\ UNCHANGED <<sampleData, label, timers, clicks, fitsDone>>
    /\ UNCHANGED <<data, pc>>
    /\ UNCHANGED fitVars
    /\ UNCHANGED <<k, em, returned, responsibilities, rbc, trajectory>>

\* loadSampleData: a click on #load-sample.
LoadSample ==
    /\ pc = "page"
    /\ inputText' = SampleText(sampleData)
    /\ Validate(inputText')
    /\ UNCHANGED <<sampleData, label, timers, clicks, fitsDone>>
    /\ UNCHANGED <<data, pc>>
    /\ UNCHANGED fitVars
    /\ UNCHANGED <<k, em, returned, responsibilities, rbc, trajectory>>

\* fitGMM up to setTimeout (lines 96-105): a click on #fit-gmm, which a
\* disabled button does not dispatch.
FitClick ==
    /\ pc = "page"
    /\ ~disabled
    /\ clicks < MaxClicks
    /\ \E v \in {validateInput(inputText, currentData, errorMessage)} :
           /\ currentData' = v.currentData
           /\ errorMessage' = v.errorMessage
           /\ IF ~v.returns
              THEN /\ disabled' = v.disabled
                   /\ UNCHANGED <<label, timers, clicks>>
              ELSE /\ label' = "Fitting..."
                   /\ disabled' = TRUE
                   /\ timers' = Append(timers, v.currentData)
                   /\ clicks' = clicks + 1
    /\ UNCHANGED <<inputText, sampleData, fitsDone>>
    /\ UNCHANGED <<data, pc>>
    /\ UNCHANGED fitVars
    /\ UNCHANGED <<k, em, returned, responsibilities, rbc, trajectory>>

\* A variant of the dataset below that is read from the configuration when
\* the timer fires.
CallbackDataAtFiring(captured, current) == current

\* The dataset of the callback: the constant `data` of fitGMM (line 99), set
\* from config.currentData at the click and captured by the arrow function,
\* whatever config.currentData holds when the timer fires.
CallbackData(captured, current) == captured

\* The deferred callback of the oldest pending timer (lines 105-150).
TimerFire ==
    /\ pc = "page"
    /\ timers # <<>>
    /\ timers' = Tail(timers)
    /\ \E dat \in {CallbackData(Head(timers), currentData)} :
       \E out \in {CallbackOutcomes[dat]} :
           /\ data' = IF IsSmallSample(dat) THEN dat
                      ELSE DataAfterFit(dat, Len(dat))
           /\ models' = out.models
           /\ fittedModel' = out.fittedModel
           /\ emCalls' = Len(out.models) + out.fits
           /\ bicCalls' = Len(out.models) + out.fits
           /\ i' = Len(out.points)
           /\ upperCI' = Tabulate(Len(out.points), LAMBDA n : out.points[n].upper)
           /\ lowerCI' = Tabulate(Len(out.points), LAMBDA n : out.points[n].lower)
           /\ meanLine' = Tabulate(Len(out.points), LAMBDA n : out.points[n].mean)
           /\ cumStats' = Tabulate(Len(out.points), LAMBDA n :
                              [mean |-> out.points[n].statMean,
                               variance |-> out.points[n].variance,
                               model |-> out.points[n].model,
                               fits |-> out.points[n].fits])
           /\ dominant' = out.dominant
           /\ threw' = out.threw
           /\ errorMessage' = IF out.threw THEN "GMM fitting failed"
                              ELSE errorMessage
           /\ \E button \in {ButtonAfterCallback([label |-> label,
                                                  disabled |-> disabled],
                                                 out.threw)} :
                  /\ label' = button.label
                  /\ disabled' = button.disabled
    /\ fitsDone' = fitsDone + 1
    /\ UNCHANGED <<inputText, sampleData, currentData, clicks, pc>>
    /\ UNCHANGED <<k, em, returned, responsibilities, rbc, trajectory>>

\* SpecPage: the page under every order of its events.
SpecPage ==
    InitPage /\ [][InputEdit \/ LoadSample \/ FitClick \/ TimerFire]_vars

\* SpecPageLive: the timer of a pending callback fires in the end.
SpecPageLive == SpecPage /\ WF_vars(TimerFire)

(***************************************************************************)
(* The RBC demo (src/js/rbc-demo.js).  An image is named by its id; a path *)
(* or a label shown is the image it is of and which of the two it is.      *)
(***************************************************************************)
\* sampleImages: the ids
SampleImages == {"healthy", "schistocytosis", "sickle-cell", "elliptocytosis"}

\* The variables of the GMM demo where that demo is left out.
NoGmm ==
    /\ inputText = <<>>
    /\ sampleData = <<>>
    /\ currentData = <<>>
    /\ disabled = FALSE
    /\ label = "Fit Model"
    /\ errorMessage = ""
    /\ timers = <<>>
    /\ clicks = 0
    /\ fitsDone = 0
    /\ data = <<>>
    /\ models = <<>>
    /\ fittedModel = NoModel
    /\ emCalls = 0
    /\ bicCalls = 0
    /\ i = 0
    /\ upperCI = <<>>
    /\ lowerCI = <<>>
    /\ meanLine = <<>>
    /\ cumStats = <<>>
    /\ dominant = NoDominant
    /\ threw = FALSE
    /\ k = 0
    /\ em = NoEM
    /\ returned = NoModel
    /\ responsibilities = <<>>

\* After init: no image selected (null), nothing shown yet; the button is as
\* the markup has it.
InitRbc ==
    /\ rbc \in {[selectedImage |-> "null", isFitted |-> FALSE,
                 src |-> [image |-> "null", path |-> "rawPath"],
                 label |-> [image |-> "null", suffix |-> " - Smear"],
                 results |-> "null", resultsShown |-> FALSE,
                 text |-> "Fit Model", disabled |-> d, timers |-> <<>>,
                 clicks |-> 0] : d \in BOOLEAN}
    /\ trajectory = <<>>
    /\ pc = "rbc"
    /\ NoGmm

\* selectImage(image) (lines 121-142): a click on the card of an image.
selectImage ==
    /\ pc = "rbc"
    /\ \E image \in SampleImages :
           rbc' = [rbc EXCEPT !.selectedImage = image,
                              !.isFitted = FALSE,
                              !.src = [image |-> image, path |-> "rawPath"],
                              !.label = [image |-> image, suffix |-> " - Smear"],
                              !.disabled = FALSE,
                              !.text = "Fit Model",
                              !.resultsShown = FALSE]
    /\ UNCHANGED <<data, pc, k, em, returned, responsibilities, fitVars>>
    /\ UNCHANGED <<inputText, sampleData, currentData, disabled, label,
                   errorMessage, timers, clicks, fitsDone, trajectory>>

\* fitModel up to setTimeout, or its else branch (lines 144-180): a click on
\* #fit-model-btn, which a disabled button does not dispatch.
fitModel ==
    /\ pc = "rbc"
    /\ ~rbc.disabled
    /\ IF rbc.selectedImage = "null"
       THEN UNCHANGED rbc
       ELSE IF ~rbc.isFitted
            THEN /\ rbc.clicks < MaxClicks
                 /\ rbc' = [rbc EXCEPT !.text = "Fitting...",
                                       !.disabled = TRUE,
                                       !.timers = Append(@, rbc.selectedImage),
                                       !.clicks = @ + 1]
       ELSE rbc' = [rbc EXCEPT !.src = [image |-> rbc.selectedImage,
                                        path |-> "rawPath"],
                               !.label = [image |-> rbc.selectedImage,
                                          suffix |-> " - Smear"],
                               !.isFitted = FALSE,
                               !.text = "Fit Model",
                               !.resultsShown = FALSE]
    /\ UNCHANGED <<data, pc, k, em, returned, responsibilities, fitVars>>
    /\ UNCHANGED <<inputText, sampleData, currentData, disabled, label,
                   errorMessage, timers, clicks, fitsDone, trajectory>>

\* The callback of fitModel (lines 153-167) of the oldest pending timer, with
\* the image its click captured.
fitModelTimer ==
    /\ pc = "rbc"
    /\ rbc.timers # <<>>
    /\ \E image \in {Head(rbc.timers)} :
           rbc' = [rbc EXCEPT !.src = [image |-> image, path |-> "fitPath"],
                              !.label = [image |-> image,
                                         suffix |-> " - Fit Model"],
                              !.isFitted = TRUE,
                              !.results = image,
                              !.text = "Show Original",
                              !.disabled = FALSE,
                              !.resultsShown = TRUE,
                              !.timers = Tail(@)]
    /\ UNCHANGED <<data, pc, k, em, returned, responsibilities, fitVars>>
    /\ UNCHANGED <<inputText, sampleData, currentData, disabled, label,
                   errorMessage, timers, clicks, fitsDone, trajectory>>

\* SpecRbc: the RBC demo under every order of selections, clicks and timers.
SpecRbc == InitRbc /\ [][selectImage \/ fitModel \/ fitModelTimer]_vars

(***************************************************************************)
(* The trajectory demo (src/js/trajectory-demo.js).                        *)
(***************************************************************************)
\* config.sampleWBC
sampleWBC ==
    <<Lit(150, 10), Lit(106, 10), Lit(75, 10), Lit(75, 10), Lit(92, 10),
      Lit(125, 10)>>

\* config.samplePLT
samplePLT == <<140 * One, 140 * One, 160 * One, 190 * One, 175 * One, 155 * One>>

\* values.join(', ') as loadSampleData writes it into a field; join applies
\* String to each number, which for a number of at most one decimal gives
\* "15" for 15.0 and "10.6" for 10.6.
JoinNumbers(values) ==
    Join(Tabulate(Len(values),
                  LAMBDA n : IF values[n] % One = 0
                             THEN DigitsOfNat(values[n] \div One)
                             ELSE toFixed1(values[n])))

\* The texts the user types into #wbc-input or #plt-input.
TrajectoryTexts ==
    {<<>>,
     <<"5", ",", "6", ",", "7">>,
     <<"5", ",", " ", "6", ",", " ", "7", ",", " ", "8">>,
     <<"1", "5", "0", ",", "2", "0", "0", ",", "2", "5", "0">>,
     <<"5", ",", "1", "0", "0", ",", "7">>,
     <<"1", "5", "0", ",", "1", "0", "0", "0", ",", "2", "5", "0">>,
     <<"5", ",", "x", ",", "7">>,
     <<"5", ",", "6">>}

\* wbcValues.every(v => !isNaN(v) && v > 0 && v < 100)
wbcValid(wbcValues) ==
    \A n \in 1..Len(wbcValues) :
        ~isNaN(wbcValues[n]) /\ wbcValues[n] > 0 /\ wbcValues[n] < 100 * One

\* pltValues.every(v => !isNaN(v) && v > 0 && v < 1000)
pltValid(pltValues) ==
    \A n \in 1..Len(pltValues) :
        ~isNaN(pltValues[n]) /\ pltValues[n] > 0 /\ pltValues[n] < 1000 * One

\* A variant of the test below that does not compare the two lengths.
EnoughOnly(wbcValues, pltValues) == Len(wbcValues) >= 3

\* wbcValues.length === pltValues.length && wbcValues.length >= 3
sameLengthAndEnough(wbcValues, pltValues) ==
    Len(wbcValues) = Len(pltValues) /\ Len(wbcValues) >= 3

\* validateInput of the trajectory demo (lines 40-70) on the demo t with the
\* texts of its two fields: the demo after it, with config.wbcData,
\* config.pltData and the button's `disabled`.  It returns true exactly when
\* it leaves the button enabled.  split, map and parseFloat raise nothing, so
\* the catch block is never entered.
validateInputs(t) ==
    IF Trim(t.wbcInput) = <<>> \/ Trim(t.pltInput) = <<>>
    THEN [t EXCEPT !.disabled = TRUE]
    ELSE Let(ParseValues(Trim(t.wbcInput)),
             LAMBDA wbcValues :
         Let(ParseValues(Trim(t.pltInput)),
             LAMBDA pltValues :
                 IF wbcValid(wbcValues) /\ pltValid(pltValues)
                    /\ sameLengthAndEnough(wbcValues, pltValues)
                 THEN [t EXCEPT !.wbcData = wbcValues,
                                !.pltData = pltValues,
                                !.disabled = FALSE]
                 ELSE [t EXCEPT !.disabled = TRUE]))

\* After init: both arrays empty (lines 13-14), empty plots, no timer; the
\* fields and the button are as the markup and the browser have them.
InitTrajectory ==
    /\ trajectory \in
           {[wbcInput |-> w, pltInput |-> p, wbcData |-> <<>>,
             pltData |-> <<>>, disabled |-> d, text |-> "Generate Trajectory",
             timers |-> 0, clicks |-> 0, runs |-> 0,
             plotted |-> [wbc |-> <<>>, plt |-> <<>>]] :
                w \in TrajectoryTexts, p \in TrajectoryTexts, d \in BOOLEAN}
    /\ rbc = <<>>
    /\ pc = "trajectory"
    /\ NoGmm

\* An input event of #wbc-input or of #plt-input (line 30): the text of that
\* field changes, then validateInput runs.
TrajectoryInputEdit ==
    /\ pc = "trajectory"
    /\ \E text \in TrajectoryTexts :
           \/ trajectory' =
                  validateInputs([trajectory EXCEPT !.wbcInput = text])
           \/ trajectory' =
                  validateInputs([trajectory EXCEPT !.pltInput = text])
    /\ UNCHANGED <<data, pc, k, em, returned, responsibilities, fitVars>>
    /\ UNCHANGED <<inputText, sampleData, currentData, disabled, label,
                   errorMessage, timers, clicks, fitsDone, rbc>>

\* loadSampleData (lines 34-38)
loadSampleData ==
    /\ pc = "trajectory"
    /\ trajectory' =
           validateInputs(
               [trajectory EXCEPT !.wbcInput = JoinNumbers(sampleWBC),
                                  !.pltInput = JoinNumbers(samplePLT)])
    /\ UNCHANGED <<data, pc, k, em, returned, responsibilities, fitVars>>
    /\ UNCHANGED <<inputText, sampleData, currentData, disabled, label,
                   errorMessage, timers, clicks, fitsDone, rbc>>

\* generateTrajectory up to setTimeout (lines 72-78): a click on
\* #generate-trajectory, which a disabled button does not dispatch.
generateTrajectory ==
    /\ pc = "trajectory"
    /\ ~trajectory.disabled
    /\ trajectory.clicks < MaxClicks
    /\ \E v \in {validateInputs(trajectory)} :
           trajectory' =
               IF v.disabled THEN v
               ELSE [v EXCEPT !.text = "Generating...", !.disabled = TRUE,
                              !.timers = @ + 1, !.clicks = @ + 1]
    /\ UNCHANGED <<data, pc, k, em, returned, responsibilities, fitVars>>
    /\ UNCHANGED <<inputText, sampleData, currentData, disabled, label,
                   errorMessage, timers, clicks, fitsDone, rbc>>

\* The callback of generateTrajectory (lines 78-92): plotTimeSeries,
\* plotTrajectory and displayResults read config.wbcData and config.pltData
\* as they are when it runs; the finally block restores the button.
TrajectoryTimer ==
    /\ pc = "trajectory"
    /\ trajectory.timers > 0
    /\ trajectory' =
           [trajectory EXCEPT !.plotted = [wbc |-> trajectory.wbcData,
                                           plt |-> trajectory.pltData],
                              !.text = "Generate Trajectory",
                              !.disabled = FALSE,
                              !.timers = @ - 1,
                              !.runs = @ + 1]
    /\ UNCHANGED <<data, pc, k, em, returned, responsibilities, fitVars>>
    /\ UNCHANGED <<inputText, sampleData, currentData, disabled, label,
                   errorMessage, timers, clicks, fitsDone, rbc>>

\* SpecTrajectory: the trajectory demo under every order of edits, sample
\* loads, clicks and timers.
SpecTrajectory ==
    InitTrajectory
    /\ [][TrajectoryInputEdit \/ loadSampleData \/ generateTrajectory
          \/ TrajectoryTimer]_vars

(***************************************************************************)
(* Properties of the Model Selector (SpecFit).                             *)
(***************************************************************************)
\* The indices of the candidates that satisfy the dominance constraint.
ValidIndices(ms) == {j \in 1..Len(ms) : ms[j].passesWeightConstraint}

\* Candidate j satisfies the constraint, no candidate that satisfies it has a
\* lower BIC, and none with the same BIC comes before it.
IsFirstMinimalValid(ms, j) ==
    /\ j \in ValidIndices(ms)
    /\ \A m \in ValidIndices(ms) :
           /\ Le(ms[j].bic, ms[m].bic)
           /\ ms[m].bic = ms[j].bic => j <= m

\* BIC values for the candidates of a fit, few enough that candidates share one.
TieScores == {-One, 0, One}

\* The three candidates ms with the BIC values b in place of their own.
Rescored(ms, b) ==
    <<[ms[1] EXCEPT !.bic = b[1]], [ms[2] EXCEPT !.bic = b[2]],
      [ms[3] EXCEPT !.bic = b[3]]>>

\* The callback has selected a model for a dataset of 5 samples or more.
SelectedFromCandidates == pc # "fit" /\ Len(data) >= 5

\* C1: for a dataset of 5 samples or more of which some candidate satisfies
\* the dominance constraint, the selected model is a candidate that satisfies
\* it and has the lowest BIC among those that do; of several with that BIC
\* the selection takes the one with the smallest k, which is checked on the
\* candidates fitted with every assignment of the BIC values of TieScores in
\* place of their own.
C1_LowestBicAmongValid ==
    (SelectedFromCandidates /\ ValidIndices(models) # {}) =>
        /\ \E j \in 1..3 :
               IsFirstMinimalValid(models, j) /\ fittedModel = models[j]
        /\ \A b \in [1..3 -> TieScores] :
               \E j \in 1..3 :
                   /\ IsFirstMinimalValid(Rescored(models, b), j)
                   /\ SelectBest(Rescored(models, b)) = Rescored(models, b)[j]

\* C1, its case: two candidates satisfy the constraint and the later one, of
\* the lower BIC, is selected.
C1_Witness ==
    /\ pc = "done"
    /\ Len(data) >= 5
    /\ Cardinality(ValidIndices(models)) >= 2
    /\ fittedModel.nComponents = 2
    /\ Lt(models[2].bic, models[1].bic)

\* C2: for a dataset of 5 samples or more, when no candidate satisfies the
\* dominance constraint the selected model is the k = 1 candidate; the
\* selected model fails the constraint only when all three candidates fail
\* it, and it then has one component.
C2_FallbackToFirst ==
    SelectedFromCandidates =>
        /\ ValidIndices(models) = {} =>
               fittedModel = models[1] /\ fittedModel.nComponents = 1
        /\ ~fittedModel.passesWeightConstraint =>
               ValidIndices(models) = {} /\ fittedModel.nComponents = 1

\* C2, its case: no candidate satisfies the constraint (the weight of the
\* k = 1 candidate is NaN) and the k = 1 candidate is selected.
C2_Witness ==
    /\ pc = "done"
    /\ Len(data) >= 5
    /\ ValidIndices(models) = {}
    /\ fittedModel = models[1]
    /\ fittedModel.weights = <<NaN>>

\* C3: for a dataset of 1 to 4 samples the callback calls neither simpleGMM
\* nor calculateBIC; the model is the fallback of one component, its mean the
\* arithmetic mean, its weight 1.0, isSimple true, its variance NaN below 3
\* samples and the sum of squared deviations divided by n - 1 for 3 and 4.
C3_SmallSampleFallback ==
    (pc # "fit" /\ Len(data) <= 4) =>
        /\ emCalls = 0
        /\ bicCalls = 0
        /\ models = <<>>
        /\ fittedModel.nComponents = 1
        /\ fittedModel.isSimple = TRUE
        /\ fittedModel.weights = <<One>>
        /\ fittedModel.means = <<Div(SumSeq(data), Len(data) * One)>>
        /\ Len(fittedModel.variances) = 1
        /\ Len(data) < 3 => fittedModel.variances[1] = NaN
        /\ Len(data) >= 3 =>
               fittedModel.variances[1] =
                   Div(SumSquares(data, fittedModel.means[1]),
                       (Len(data) - 1) * One)

\* C3, its case: 4 samples that are not all equal, fitted by the fallback.
C3_Witness ==
    /\ pc = "done"
    /\ Len(data) = 4
    /\ fittedModel.isSimple = TRUE
    /\ fittedModel.variances[1] > 0
    /\ IsFinite(fittedModel.variances[1])

(***************************************************************************)
(* Properties of the Cumulative Fitter (SpecFit).  Entry idx of the arrays *)
(* is the point of the source's index i = idx - 1.                         *)
(***************************************************************************)
\* The index of the maximum weight of a model (0 when no index has it).
DominantIndex(model) == IndexOf(model.weights, MathMax(model.weights))

\* C4: for every index i >= 4 the model behind the point is the model the
\* Model Selector returns for the prefix data[0..i], and the point's mean and
\* variance are those of the component at the index of the maximum weight;
\* at i = n - 1 they are the mean and variance of the dominant component
\* displayResults reports for the model of the whole dataset.  The model of
\* the selector is fitted anew for the point pushed last, which every point
\* is in the state its push leads to.
C4_CumulativeIsSelector ==
    /\ \A idx \in 5..Len(cumStats) :
           /\ (idx = Len(cumStats) /\ pc = "plotTimeSeries") =>
                  cumStats[idx].model =
                      SelectBest(FitCandidates(Slice(data, idx)))
           /\ cumStats[idx].mean =
                  At(cumStats[idx].model.means,
                     DominantIndex(cumStats[idx].model))
           /\ cumStats[idx].variance =
                  At(cumStats[idx].model.variances,
                     DominantIndex(cumStats[idx].model))
    /\ (pc = "done" /\ Len(data) >= 5) =>
           /\ cumStats[Len(data)].model = fittedModel
           /\ cumStats[Len(data)].mean = dominant.mean
           /\ cumStats[Len(data)].variance = dominant.variance

\* C4, its case: a point at an index i >= 4 before the last one, behind it a
\* model of two components selected for the prefix.
C4_Witness ==
    /\ pc = "done"
    /\ Len(data) = 6
    /\ cumStats[5].model.nComponents = 2
    /\ cumStats[5].fits = 3
    /\ cumStats[6].model = fittedModel

\* C5: the points at index 0 and index 1 are absent (mean, lower bound and
\* upper bound null), and the three arrays have one entry for every index the
\* loop has passed: one for every sample when the loop has ended.
C5_FirstTwoAbsent ==
    /\ Len(upperCI) = i
    /\ Len(lowerCI) = i
    /\ Len(meanLine) = i
    /\ i <= Len(data)
    /\ pc = "done" => i = Len(data)
    /\ \A idx \in 1..i :
           idx <= 2 =>
               /\ meanLine[idx] = Null
               /\ lowerCI[idx] = Null
               /\ upperCI[idx] = Null

\* C5, its case: the loop has ended on 3 samples or more, the first two
\* points are absent and the third is not.
C5_Witness ==
    /\ pc = "done"
    /\ Len(data) >= 3
    /\ Len(meanLine) = Len(data)
    /\ meanLine[1] = Null
    /\ meanLine[2] = Null
    /\ meanLine[3] # Null

\* The calls of simpleGMM the callback makes before the loop of plotTimeSeries.
CallsOfMainFit == IF Len(data) >= 5 THEN 3 ELSE 0

\* C6: for index i = 2 and i = 3 the loop calls simpleGMM and calculateBIC
\* not at all, and the point is (m, m - 1.96 sqrt(s2), m + 1.96 sqrt(s2)) for
\* the mean m and the variance s2 that simpleMeanStd returns for the prefix.
C6_ShortPrefixByFormula ==
    /\ (pc # "fit" /\ i <= 4) =>
           emCalls = CallsOfMainFit /\ bicCalls = CallsOfMainFit
    /\ \A idx \in 3..Len(meanLine) :
           idx <= 4 =>
               /\ cumStats[idx].mean = simpleMeanStd(Slice(data, idx)).means[1]
               /\ cumStats[idx].variance =
                      simpleMeanStd(Slice(data, idx)).variances[1]
               /\ meanLine[idx] = cumStats[idx].mean
               /\ lowerCI[idx] =
                      Sub(cumStats[idx].mean,
                          Mul(Lit(196, 100), Sqrt(cumStats[idx].variance)))
               /\ upperCI[idx] =
                      Add(cumStats[idx].mean,
                          Mul(Lit(196, 100), Sqrt(cumStats[idx].variance)))

\* C6, its case: the point of index 3 (a prefix of 4 samples) of a dataset of
\* 5 samples or more, with a band of positive width, and no call of simpleGMM
\* made by the loop so far.
C6_Witness ==
    /\ pc = "plotTimeSeries"
    /\ i = 4
    /\ Len(data) >= 5
    /\ emCalls = 3
    /\ Lt(lowerCI[4], meanLine[4])
    /\ Lt(meanLine[4], upperCI[4])

\* C7: for every index i >= 2 the point is absent exactly when the variance
\* found for the prefix is NaN or undefined; a point that is present has its
\* three fields and lower bound <= mean <= upper bound.
C7_AbsentIffNoVariance ==
    \A idx \in 3..Len(meanLine) :
        /\ meanLine[idx] = Null <=> cumStats[idx].variance \in {NaN, Undefined}
        /\ meanLine[idx] = Null => lowerCI[idx] = Null /\ upperCI[idx] = Null
        /\ meanLine[idx] # Null =>
               /\ lowerCI[idx] # Null
               /\ upperCI[idx] # Null
               /\ Le(lowerCI[idx], meanLine[idx])
               /\ Le(meanLine[idx], upperCI[idx])

\* C7, its case: a point at an index i >= 4 is absent because no index has
\* the maximum weight (the variance is undefined), after points that are
\* present.
C7_Witness ==
    /\ pc = "done"
    /\ Len(data) >= 5
    /\ meanLine[4] # Null
    /\ meanLine[5] = Null
    /\ cumStats[5].variance = Undefined
    /\ DominantIndex(cumStats[5].model) = 0

(***************************************************************************)
(* Properties of the EM Engine (SpecEngine).                               *)
(***************************************************************************)
\* simpleGMM has returned.
ReturnedByEM == pc = "returned" /\ em # NoEM

\* All the samples of the dataset are equal.
IsConstant(dat) == \A j \in DOMAIN dat : dat[j] = dat[1]

\* a is a number within 0.001 of b.
Near(a, b) == IsFinite(a) /\ AbsInt(a - b) <= Lit(1, 1000)

\* C8: for a dataset of one repeated value v the fit of k = 1 returns the
\* mean v, the variance 0 (or NaN) and the weights [1.0], each within 0.001.
C8_ConstantDataFit ==
    (ReturnedByEM /\ k = 1 /\ IsConstant(data)) =>
        /\ Len(returned.means) = 1
        /\ Near(returned.means[1], data[1])
        /\ returned.variances[1] = NaN \/ Near(returned.variances[1], 0)
        /\ Near(returned.weights[1], One)

\* C9: the weights of every model simpleGMM returns sum to 1.0; the sum is
\* taken to be within 0.001 of 1.0, far above the rounding of the arithmetic.
C9_WeightsSumToOne ==
    ReturnedByEM => Near(SumSeq(returned.weights), One)

\* C10: means, variances and weights of every model either fitting function
\* returns have nComponents entries each, also for k greater than n, and the
\* means simpleGMM starts from are all samples of the dataset.
C10_ArraysHaveKEntries ==
    /\ pc = "returned" =>
           /\ returned.nComponents = k
           /\ Len(returned.means) = returned.nComponents
           /\ Len(returned.variances) = returned.nComponents
           /\ Len(returned.weights) = returned.nComponents
    /\ pc = "simpleGMM" =>
           /\ Len(em.means) = k
           /\ Len(em.variances) = k
           /\ Len(em.weights) = k
           /\ em.iter = 0 =>
                  \A j \in 1..k : \E n \in DOMAIN data : em.means[j] = data[n]

\* C10, its case: simpleGMM has returned a model of more components than
\* the dataset has samples.
C10_Witness ==
    /\ ReturnedByEM
    /\ k > Len(data)
    /\ returned.nComponents = k
    /\ Len(returned.means) = k

\* A number: finite, an infinity or NaN, and neither undefined nor null.
IsNum(x) == IsFinite(x) \/ x \in {PosInf, NegInf, NaN}

AllNumbers(a) == \A j \in DOMAIN a : IsNum(a[j])

\* The effective count n_j of component j for the responsibilities r.
ZeroCount(r, j) == SumResp(r, j) = FlZero

\* C11: the engine gives values and raises nothing: the parameters of every
\* pass, of every M-step and of every model returned are numbers (NaN among
\* them, never undefined), so is the BIC of every model scored, and the
\* M-step gives a component whose effective count is 0 the mean NaN and the
\* variance NaN.
C11_CoreNeverThrows ==
    /\ pc \in {"simpleGMM", "M-step", "M-step done"} =>
           /\ AllNumbers(em.means)
           /\ AllNumbers(em.variances)
           /\ AllNumbers(em.weights)
    /\ pc \in {"returned", "scored"} =>
           /\ returned.nComponents >= 1
           /\ AllNumbers(returned.means)
           /\ AllNumbers(returned.variances)
           /\ AllNumbers(returned.weights)
    /\ pc = "scored" =>
           /\ IsNum(models[1].bic)
           /\ models[1].passesWeightConstraint \in BOOLEAN
    /\ pc = "M-step done" =>
           \A j \in 1..k :
               ZeroCount(responsibilities, j) =>
                   /\ em.means[j] = NaN
                   /\ em.variances[j] = NaN
                   /\ em.weights[j] = 0

\* C11, its case: the M-step has left a component of the effective count 0
\* with the mean NaN and the variance NaN, next to a component whose
\* parameters are finite.
C11_Witness ==
    /\ pc = "M-step done"
    /\ \E j \in 1..k :
           /\ ZeroCount(responsibilities, j)
           /\ em.means[j] = NaN
           /\ em.variances[j] = NaN
    /\ \E j \in 1..k : IsFinite(em.means[j]) /\ IsFinite(em.variances[j])

(***************************************************************************)
(* Properties of the BIC (SpecEngine).                                     *)
(***************************************************************************)
\* The number of parameters the claim gives for kk components.
ParamsOfCount(kk) ==
    IF kk = 1 THEN 2 ELSE IF kk = 2 THEN 5 ELSE IF kk = 3 THEN 8
    ELSE 2 * kk + (kk - 1)

\* The log-likelihood of the model that has been scored.
ScoredLogLikelihood ==
    calculateLogLikelihood(data, returned.means, returned.variances,
                           returned.weights)

\* -2 * logLikelihood + numParams * ln(n)
BicBy(logLikelihood, numParams, n) ==
    Add(Mul(-2 * One, logLikelihood), Mul(numParams * One, Log(n * One)))

\* C13: the BIC of a model of k components on n samples is
\* -2 * logLikelihood + numParams * ln(n), numParams = 2k + (k - 1): 2, 5
\* and 8 for k = 1, 2 and 3.
C13_BicFormula ==
    pc = "scored" =>
        /\ ParamsOfCount(k) = 2 * k + (k - 1)
        /\ models[1].nComponents = k
        /\ models[1].bic =
               BicBy(ScoredLogLikelihood, ParamsOfCount(k), Len(data))

\* C13, its case: the BIC of a fitted model of three components is finite.
C13_Witness ==
    /\ pc = "scored"
    /\ em # NoEM
    /\ k = 3
    /\ Len(data) >= 5
    /\ IsFinite(models[1].bic)
    /\ IsFinite(ScoredLogLikelihood)

\* The BIC of the model scored with kk for its component count: the
\* log-likelihood, which calculateBIC takes of the arrays, stays the same.
BicOfCount(kk) == calculateBIC(data, [returned EXCEPT !.nComponents = kk])

\* The BIC for every component count 1..MaxK at the log-likelihood of the
\* model scored.
BicByCount == Tabulate(MaxK, LAMBDA kk : BicOfCount(kk))

\* C14 as stated: for equal (finite) log-likelihood and the same dataset of
\* n >= 1 samples the BIC is strictly higher for the higher component count.
C14_BicStrictlyIncreasing ==
    (pc = "scored" /\ IsFinite(ScoredLogLikelihood)) =>
        \E bics \in {BicByCount} :
            \A k1 \in 1..MaxK : \A k2 \in 1..MaxK :
                k1 < k2 => Lt(bics[k1], bics[k2])

\* C14 as amended: the BIC is strictly higher for the higher component count
\* on n >= 2 samples; on a single sample ln(n) = 0 and the BIC is the same
\* for every component count.
C14_BicIncreasingFromTwoSamples ==
    (pc = "scored" /\ IsFinite(ScoredLogLikelihood)) =>
        \E bics \in {BicByCount} :
            \A k1 \in 1..MaxK : \A k2 \in 1..MaxK :
                k1 < k2 =>
                    /\ Len(data) >= 2 => Lt(bics[k1], bics[k2])
                    /\ Len(data) = 1 =>
                           bics[k1] = bics[k2] /\ IsFinite(bics[k1])

\* C14, its case: a fitted model on 2 samples or more with a finite BIC,
\* which is lower than the BIC of the same log-likelihood at a higher count.
C14_Witness ==
    /\ pc = "scored"
    /\ em # NoEM
    /\ Len(data) >= 2
    /\ k = 1
    /\ IsFinite(models[1].bic)
    /\ Lt(models[1].bic, BicOfCount(2))
    /\ Lt(BicOfCount(2), BicOfCount(3))

(***************************************************************************)
(* Properties of the EM loop (SpecEngine).                                 *)
(***************************************************************************)
\* A pass of the loop of simpleGMM is made between the two states.
PassMade == pc = "simpleGMM" /\ pc' = "simpleGMM" /\ em' # em

\* The log-likelihood of the parameters the pass made has left.
NextLogLikelihood ==
    calculateLogLikelihood(data, em'.means, em'.variances, em'.weights)

\* The pass made has stopped the loop exactly when its log-likelihood is
\* within 0.001 of the one before; otherwise it has counted one iteration
\* and kept its log-likelihood for the next.
StopsWhenWithinTolerance(logLikelihood) ==
    /\ em'.converged <=>
           Lt(MathAbs(Sub(logLikelihood, em.prevLogLikelihood)), Lit(1, 1000))
    /\ ~em'.converged =>
           /\ em'.iter = em.iter + 1
           /\ em'.prevLogLikelihood = logLikelihood
    /\ em'.converged => em'.iter = em.iter

\* C17: the loop of simpleGMM makes at most 100 passes; a pass is made only
\* while no pass has stopped the loop, and a pass stops it exactly when its
\* log-likelihood is within 0.001 of the one before; the first pass never
\* stops it, nor does a pass after a log-likelihood of NaN, and simpleGMM
\* returns either stopped or after 100 passes.
C17_LoopStopsByRule ==
    /\ [](pc = "simpleGMM" =>
              /\ em.iter <= 100
              /\ em.converged => em.iter >= 1 /\ em.iter <= 99)
    /\ [](ReturnedByEM =>
              /\ em.converged \/ em.iter = 100
              /\ em.prevLogLikelihood = NaN =>
                     ~em.converged /\ em.iter = 100)
    /\ [][PassMade =>
              /\ ~em.converged
              /\ em.iter < 100
              /\ StopsWhenWithinTolerance(NextLogLikelihood)
              /\ em.iter = 0 => ~em'.converged
              /\ em.prevLogLikelihood = NaN => ~em'.converged]_vars

\* C17, its case: simpleGMM has returned from a loop that a pass before the
\* hundredth stopped, with a finite log-likelihood.
C17_Witness ==
    /\ ReturnedByEM
    /\ em.converged
    /\ em.iter >= 1
    /\ em.iter < 99
    /\ IsFinite(em.prevLogLikelihood)

\* The index (from 0) of the seed of component j (from 0) the claim gives.
SeedIndex(n, kk, j) ==
    IF kk = 1 THEN n \div 2
    ELSE IF kk = 2 THEN (IF j = 0 THEN n \div 3 ELSE (2 * n) \div 3)
    ELSE ((j + 1) * n) \div (kk + 1)

\* v is the element at index idx (from 0) of dat in ascending order: fewer
\* than idx + 1 elements are below v, and at least idx + 1 are v or below.
IsOrderStatistic(dat, idx, v) ==
    /\ \E n \in DOMAIN dat : dat[n] = v
    /\ Cardinality({n \in DOMAIN dat : dat[n] < v}) <= idx
    /\ Cardinality({n \in DOMAIN dat : dat[n] <= v}) > idx

\* simpleGMM is about to make its first pass.
AtFirstPass == pc = "simpleGMM" /\ em.iter = 0 /\ ~em.converged

ValidDataset(d) ==
    /\ Len(d) >= 1
    /\ \A n \in 1..Len(d) : IsNum(d[n]) /\ d[n] # NaN /\ d[n] > 0 /\ d[n] < 100 * One

\* The text passes the validation: it is not blank and its pieces are
\* readings.
TextIsValid(text) ==
    /\ Trim(text) # <<>>
    /\ ValidDataset(ParseValues(Trim(text)))

\* The callback has run the EM fit and the cumulative fit on `data`.
CoreReached == fitsDone > 0 /\ pc = "page"

\* C15: every dataset that reaches the core has one element or more, all of
\* them numbers strictly between 0 and 100 and none NaN: the dataset each
\* pending callback has captured, the dataset a callback has fitted and each
\* of its prefixes; a click whose text fails the validation starts no fit
\* (on the data stored before, or any other), and the dataset of a fit
\* started is that of the text at the click.
C15_OnlyValidDataReachesCore ==
    /\ [](\A n \in 1..Len(timers) : ValidDataset(timers[n]))
    /\ [](CoreReached =>
              /\ ValidDataset(data)
              /\ \A m \in 1..Len(data) : ValidDataset(Slice(data, m))
              /\ Len(cumStats) = Len(data))
    /\ [][/\ ~TextIsValid(inputText) => Len(timers') <= Len(timers)
          /\ Len(timers') > Len(timers) =>
                 /\ timers'[Len(timers')] = ParseValues(Trim(inputText))
                 /\ currentData' = timers'[Len(timers')]]_vars

\* A callback has fitted five readings or more by EM, whole and prefix by
\* prefix, data are stored, the text in the field fails the validation and
\* the button accepts a click.
C15_Witness ==
    /\ CoreReached
    /\ Len(data) >= 5
    /\ emCalls >= 6
    /\ currentData # <<>>
    /\ ~TextIsValid(inputText)
    /\ ~disabled
    /\ clicks < MaxClicks

StillPending == SubSeq(timers', 1, Len(timers)) = timers

\* C19: every accepted click runs to completion.  A click that passes the
\* validation sets the button to "Fitting...", disabled, and adds one
\* callback; no event other than the firing of its timer removes a pending
\* callback; the callback runs once, and after it the button is labelled
\* "Fit Model" and enabled, also when displayResults has raised, which is
\* then shown as a message; and each pending callback runs in the end.
C19_AcceptedClickRunsToCompletion ==
    /\ [](fitsDone + Len(timers) = clicks)
    /\ [][clicks' # clicks =>
              /\ clicks' = clicks + 1
              /\ Len(timers') = Len(timers) + 1
              /\ StillPending
              /\ label' = "Fitting..."
              /\ disabled']_vars
    /\ [][fitsDone' = fitsDone => StillPending]_vars
    /\ [][fitsDone' # fitsDone =>
              /\ fitsDone' = fitsDone + 1
              /\ timers' = Tail(timers)
              /\ clicks' = clicks
              /\ label' = "Fit Model"
              /\ ~disabled'
              /\ threw' => errorMessage' = "GMM fitting failed"]_vars
    /\ \A n \in 1..MaxClicks : (clicks >= n) ~> (fitsDone >= n)

\* Two accepted clicks have run to completion, the first callback with an
\* error (its message is still shown), the second without, and the button
\* is back.
C19_Witness ==
    /\ fitsDone = 2
    /\ clicks = 2
    /\ timers = <<>>
    /\ ~threw
    /\ errorMessage = "GMM fitting failed"
    /\ label = "Fit Model"
    /\ ~disabled

\* C20: while a fit is pending (its click accepted, its callback not yet
\* run) the fit button stays disabled, and at most one fit is pending.
C20_DisabledWhilePending ==
    /\ timers # <<>> => disabled
    /\ Len(timers) <= 1

\* The callback of the oldest pending timer runs in this step.
Fires == fitsDone' = fitsDone + 1

\* C21: the deferred computation uses the dataset validated at the click.
\* The dataset a click captures is that of the text at the click, edits
\* before the firing leave it as it is, and when the timer fires the fitted
\* model stored, the points of the time-series plot and the dominant
\* component of the results panel are those of the captured dataset,
\* whatever the field and config.currentData hold by then.
C21_FitUsesClickTimeData ==
    /\ [][clicks' # clicks =>
              timers'[Len(timers')] = ParseValues(Trim(inputText))]_vars
    /\ [][~Fires => StillPending]_vars
    /\ [][Fires =>
              /\ data' = Head(timers)
              /\ fittedModel' = CallbackOutcomes[Head(timers)].fittedModel
              /\ models' = CallbackOutcomes[Head(timers)].models
              /\ dominant' = CallbackOutcomes[Head(timers)].dominant
              /\ Len(cumStats') = Len(Head(timers))
              /\ \A n \in 1..Len(cumStats') :
                     /\ cumStats'[n].model =
                            CallbackOutcomes[Head(timers)].points[n].model
                     /\ meanLine'[n] =
                            CallbackOutcomes[Head(timers)].points[n].mean]_vars

\* A callback has run on the dataset of its click after a valid edit had
\* replaced config.currentData by another dataset, whose model differs, and
\* an invalid edit had followed: the button is enabled beside an invalid
\* text only when the callback was the last to act.
C21_Witness ==
    /\ CoreReached
    /\ timers = <<>>
    /\ currentData # data
    /\ currentData \in DOMAIN CallbackOutcomes
    /\ CallbackOutcomes[currentData].fittedModel # fittedModel
    /\ ~TextIsValid(inputText)
    /\ ~disabled
    /\ fittedModel = CallbackOutcomes[data].fittedModel

(***************************************************************************)
(* A NaN among the weights (SpecFit).                                      *)
(***************************************************************************)
HasNaNWeight(model) == \E j \in 1..Len(model.weights) : model.weights[j] = NaN

\* C22: a candidate with a NaN among its weights never satisfies the
\* dominance constraint, so for five samples or more the model selected has
\* a NaN weight only when it is the first candidate (k = 1) taken because no
\* candidate satisfies the constraint.
C22_NaNWeightOnlyByFallback ==
    (pc # "fit" /\ Len(data) >= 5) =>
        /\ \A m \in 1..Len(models) :
               HasNaNWeight(models[m]) => ~models[m].passesWeightConstraint
        /\ HasNaNWeight(fittedModel) =>
               /\ \A m \in 1..Len(models) : ~models[m].passesWeightConstraint
               /\ fittedModel = models[1]
               /\ fittedModel.nComponents = 1

\* Five samples or more have been fitted, every candidate has a NaN weight or
\* a largest weight below 0.5, and the model selected, the first candidate,
\* has a NaN weight.
C22_Witness ==
    /\ pc = "done"
    /\ Len(data) >= 5
    /\ Len(models) = 3
    /\ HasNaNWeight(fittedModel)
    /\ fittedModel = models[1]
    /\ \A m \in 1..3 : ~models[m].passesWeightConstraint

(***************************************************************************)
(* Properties of the RBC demo (SpecRbc).                                   *)
(***************************************************************************)
\* C23: once an image is selected, the image displayed, its label and the
\* results table shown are those of the selected image, and isFitted is true
\* exactly when the fitted image of the selected image is displayed.
C23_DisplayBelongsToSelection ==
    rbc.selectedImage # "null" =>
        /\ rbc.src.image = rbc.selectedImage
        /\ rbc.label.image = rbc.selectedImage
        /\ rbc.resultsShown => rbc.results = rbc.selectedImage
        /\ rbc.isFitted <=>
               rbc.src = [image |-> rbc.selectedImage, path |-> "fitPath"]

(***************************************************************************)
(* Properties of the trajectory demo (SpecTrajectory).                     *)
(***************************************************************************)
\* Two sequences of equal length, at least 3, of WBC values strictly between
\* 0 and 100 and PLT values strictly between 0 and 1000.
ValidPair(wbc, plt) ==
    /\ Len(wbc) = Len(plt)
    /\ Len(wbc) >= 3
    /\ \A n \in 1..Len(wbc) : wbc[n] \in (1..(100 * One - 1))
    /\ \A n \in 1..Len(plt) : plt[n] \in (1..(1000 * One - 1))

\* C24: whenever the deferred plotting runs, the stored WBC and PLT
\* sequences have the same length, at least 3, every WBC value is strictly
\* between 0 and 100 and every PLT value strictly between 0 and 1000, under
\* every order of edits, sample loads, clicks and firings; what the plots
\* have read is such a pair once a plotting has run; and a step that changes
\* either stored sequence stores the values parsed from the two fields, which
\* are such a pair.
C24_PlottedDataValid ==
    /\ [](trajectory.runs > 0 =>
              ValidPair(trajectory.plotted.wbc, trajectory.plotted.plt))
    /\ [](trajectory.timers > 0 =>
              ValidPair(trajectory.wbcData, trajectory.pltData))
    /\ [][/\ trajectory'.runs = trajectory.runs + 1 =>
                 /\ ValidPair(trajectory.wbcData, trajectory.pltData)
                 /\ trajectory'.plotted = [wbc |-> trajectory.wbcData,
                                           plt |-> trajectory.pltData]
          /\ (trajectory'.wbcData # trajectory.wbcData
                 \/ trajectory'.pltData # trajectory.pltData) =>
                 /\ trajectory'.wbcData =
                        ParseValues(Trim(trajectory'.wbcInput))
                 /\ trajectory'.pltData =
                        ParseValues(Trim(trajectory'.pltInput))
                 /\ ValidPair(trajectory'.wbcData, trajectory'.pltData)]_vars

\* C24 witness: the plotting has run after the only click although a field
\* was edited to a text that fails the validation between the click and the
\* firing (the button is enabled, which a failed validation after the firing
\* would have undone), and it has read the stored pair.
C24_Witness ==
    /\ trajectory.runs = 1
    /\ trajectory.clicks = 1
    /\ ~trajectory.disabled
    /\ validateInputs(trajectory).disabled
    /\ trajectory.plotted = [wbc |-> trajectory.wbcData,
                             plt |-> trajectory.pltData]
    /\ Len(trajectory.plotted.wbc) >= 3

====
